---- MODULE Spec2Model ----
(***************************************************************************)
(* Model of the metadata exchange state machine of libtransmission         *)
(* (torrent-magnet): tr_torrentSetMetadataSizeHint,                        *)
(* tr_torrentSetMetadataPiece and tr_torrentGetNextMetadataRequest, and of  *)
(* its range I/O and piece verification (inout), further down.             *)
(*                                                                         *)
(* Byte arrays are kept run-length encoded: a buffer is a sequence of runs *)
(* [len, val], meaning len consecutive bytes of value val.  This keeps the *)
(* real piece size (16384) and real sizes (40000, 7232, ...) checkable.    *)
(* A peer's payload is a byte string of one repeated value.                *)
(***************************************************************************)
EXTENDS Integers, Sequences, FiniteSets, TLC

(***************************************************************************)
(* Program constants                                                       *)
(***************************************************************************)
METADATA_PIECE_SIZE == 16384

MIN_REPEAT_INTERVAL_SECS == 3

INT_MAX == 2147483647

MAX_BLOCK_SIZE == 16384

(***************************************************************************)
(* Bounds of the model                                                     *)
(***************************************************************************)
\* largest number of metadata pieces a size hint of the main specification asks for
MaxPieces == 3

\* first clock reading of the main specification: the last one at which a
\* never requested piece is not yet due
StartTime == MIN_REPEAT_INTERVAL_SECS

\* largest clock reading of the main specification
MaxTime == 8

\* latest first clock reading of the request-cycle scenario
CycleMaxStart == 20

\* number of calls of the request-cycle scenario
CycleCalls == 10

NULL == [nullptr |-> TRUE]

\* content of a byte that was allocated and never written
UNINIT == "uninit"

\* the byte values a peer's payload is made of; the info dictionary the
\* infohash names is made of "good" bytes
ByteVals == {"good", "bad"}

(***************************************************************************)
(* Byte arrays, run-length encoded                                         *)
(***************************************************************************)
RECURSIVE BufLen(_)
BufLen(b) ==
    IF b = <<>> THEN 0 ELSE Head(b).len + BufLen(Tail(b))

\* the runs of b merged so that equal contents have equal representations
RECURSIVE Coalesce(_)
Coalesce(b) ==
    IF Len(b) <= 1 THEN b
    ELSE IF b[1].val = b[2].val
         THEN Coalesce(<<[len |-> b[1].len + b[2].len, val |-> b[1].val]>> \o SubSeq(b, 3, Len(b)))
         ELSE <<b[1]>> \o Coalesce(Tail(b))

\* the first k bytes of b
RECURSIVE TakeBytes(_, _)
TakeBytes(b, k) ==
    IF k <= 0 \/ b = <<>> THEN <<>>
    ELSE IF Head(b).len <= k
         THEN <<Head(b)>> \o TakeBytes(Tail(b), k - Head(b).len)
         ELSE <<[len |-> k, val |-> Head(b).val]>>

\* b without its first k bytes
RECURSIVE DropBytes(_, _)
DropBytes(b, k) ==
    IF b = <<>> THEN <<>>
    ELSE IF k <= 0 THEN b
    ELSE IF Head(b).len <= k
         THEN DropBytes(Tail(b), k - Head(b).len)
         ELSE <<[len |-> Head(b).len - k, val |-> Head(b).val]>> \o Tail(b)

\* bytes [from, from + n) of b
SliceBytes(b, from, n) ==
    Coalesce(TakeBytes(DropBytes(b, from), n))

\* n bytes of value v
Bytes(n, v) ==
    IF n <= 0 THEN <<>> ELSE <<[len |-> n, val |-> v]>>

\* tr_new(uint8_t, size): size bytes nobody has written yet
tr_new_bytes(size) ==
    Bytes(size, UNINIT)

\* memcpy(dst + offset, data, len), data being len bytes of value val; a copy
\* that runs past the end of dst shows as a buffer longer than it was allocated
memcpy(dst, offset, val, len) ==
    IF len <= 0 THEN dst
    ELSE Coalesce(TakeBytes(dst, offset)
                  \o (IF BufLen(dst) < offset THEN Bytes(offset - BufLen(dst), UNINIT) ELSE <<>>)
                  \o Bytes(len, val)
                  \o DropBytes(dst, offset + len))

\* tr_sha1(): the digest of a byte array, taken as collision-free
tr_sha1(b) ==
    <<"sha1", Coalesce(b)>>

(***************************************************************************)
(* State                                                                   *)
(***************************************************************************)
VARIABLES
    tor,        \* the tr_torrent: info, incompleteMetadata, error, flags
    disk,       \* the torrent's persisted files: the .torrent container and the .resume file
    infoDict,   \* the info dictionary the torrent's infohash names (fixed per torrent)
    clock,      \* the clock reading the caller passes as `now`
    peers,      \* what the peers of this run may send: sizes, piece indices, bytes, lengths
    last,       \* the last public call and what it returned
    hist,       \* for one watched piece: when a request last returned it, and what happened since
    returns     \* the request-cycle scenario: what each call returned, in call order

vars == <<tor, disk, infoDict, clock, peers, last, hist, returns>>

\* the size of the info dictionary the infohash names: MaxPieces pieces, the
\* last one 7232 bytes long (40000 bytes for 3 pieces)
TrueSize ==
    (MaxPieces - 1) * METADATA_PIECE_SIZE + 7232

\* usable sizes a peer may advertise: the true one, and a wrong one of one piece
GoodSizes ==
    {TrueSize, METADATA_PIECE_SIZE}

\* the piece indices the history is kept for
Pieces == 0..(MaxPieces - 1)

\* An int64_t is kept as two words, hi * 2^31 + lo with 0 <= lo <= INT_MAX,
\* so that sizes beyond INT_MAX can be told from those within.
Int64(hi, lo) ==
    [hi |-> hi, lo |-> lo]

\* size <= 0
I64NotPositive(x) ==
    x.hi < 0 \/ (x.hi = 0 /\ x.lo = 0)

\* size > INT_MAX
I64AboveIntMax(x) ==
    x.hi > 0

\* the sizes a peer may advertise: usable ones, -1, 0, INT_MAX + 1 and 2^32 + 16384
HintSizes ==
    {Int64(0, s) : s \in GoodSizes}
        \cup {Int64(-1, INT_MAX), Int64(0, 0), Int64(1, 0), Int64(2, METADATA_PIECE_SIZE)}

\* peers that send anything: every size, piece indices in and out of range,
\* right and wrong bytes, right and wrong lengths
AnyPeers ==
    [sizes |-> HintSizes,
     pieces |-> -1..MaxPieces,
     vals |-> ByteVals,
     lens |-> {7232, 7233, METADATA_PIECE_SIZE}]

\* peers that send well-formed pieces of the wrong content: every complete
\* assembly fails its checksum
BadPeers ==
    [sizes |-> {Int64(0, TrueSize)},
     pieces |-> Pieces,
     vals |-> {"bad"},
     lens |-> {7232, METADATA_PIECE_SIZE}]

(***************************************************************************)
(* Collaborators outside the source files: modelled from their contracts    *)
(***************************************************************************)
\* tr_torrentHasMetadata(tor): the torrent's info names at least one file
tr_torrentHasMetadata(t) ==
    t.info.fileCount > 0

\* tr_getBlockSize(pieceSize): halve until it fits a block; 0 when the piece
\* size is no multiple of the result
RECURSIVE HalveToBlock(_)
HalveToBlock(b) ==
    IF b > MAX_BLOCK_SIZE THEN HalveToBlock(b \div 2) ELSE b

tr_getBlockSize(pieceSize) ==
    LET b == HalveToBlock(pieceSize)
    IN IF b = 0 \/ pieceSize % b # 0 THEN 0 ELSE b

\* tr_variantFromBenc(buf): 0 when buf is a bencoded value.  The only buffer
\* that gets here has the digest of infoDict.
tr_variantFromBenc(d, buf) ==
    IF Coalesce(buf) = d.bytes /\ d.isBenc THEN 0 ELSE 1

\* tr_variantFromFile(path): whether the .torrent container loads
tr_variantFromFile(dk) ==
    dk.torrent \in {"magnet-stub", "full"}

\* tr_metainfoParse(): whether a tr_info can be derived from the merged container
tr_metainfoParse(d) ==
    d.metainfoOk

\* tr_torrentSetLocalError(tor, msg)
tr_torrentSetLocalError(t, msg) ==
    [t EXCEPT !.error = "TR_STAT_LOCAL_ERROR", !.errorString = msg]

(***************************************************************************)
(* Metadata exchange                                                       *)
(***************************************************************************)
\* a slip: the last element is dropped, whatever idx is
tr_removeElementFromArray_Last(array, idx) ==
    SubSeq(array, 1, Len(array) - 1)

\* tr_removeElementFromArray(array, idx, ...): the elements after idx move down by one
tr_removeElementFromArray(array, idx) ==
    SubSeq(array, 1, idx) \o SubSeq(array, idx + 2, Len(array))

\* a slip: the entries are numbered from 1
AllPiecesNeeded_FromOne(n) ==
    [i \in 1..n |-> [piece |-> i, requestedAt |-> 0]]

\* the needed list of a new or reset state: every piece, in index order, never requested
AllPiecesNeeded(n) ==
    [i \in 1..n |-> [piece |-> i - 1, requestedAt |-> 0]]

\* a slip: one piece too many when the size is a multiple of the piece size
HintPieceCount_OffByOne(size) ==
    IF I64NotPositive(size) \/ I64AboveIntMax(size)
    THEN -1
    ELSE (size.lo \div METADATA_PIECE_SIZE) + 1

\* the piece count of a size hint, -1 for a size that is not usable
HintPieceCount(size) ==
    IF I64NotPositive(size) \/ I64AboveIntMax(size)
    THEN -1
    ELSE (size.lo \div METADATA_PIECE_SIZE) + (IF size.lo % METADATA_PIECE_SIZE # 0 THEN 1 ELSE 0)

\* a slip: the torrent is not asked whether it has its metadata
tr_torrentSetMetadataSizeHint_Unchecked(t, size) ==
    LET n == HintPieceCount(size)
    IN IF t.incompleteMetadata # NULL THEN [tor |-> t, ret |-> FALSE]
       ELSE IF n <= 0 THEN [tor |-> t, ret |-> FALSE]
       ELSE [tor |-> [t EXCEPT !.incompleteMetadata =
                          [metadata |-> tr_new_bytes(size.lo),
                           metadata_size |-> size.lo,
                           pieceCount |-> n,
                           piecesNeeded |-> AllPiecesNeeded(n)]],
             ret |-> TRUE]

\* a slip: a second hint replaces the state the first one made
tr_torrentSetMetadataSizeHint_Again(t, size) ==
    LET n == HintPieceCount(size)
    IN IF tr_torrentHasMetadata(t) THEN [tor |-> t, ret |-> FALSE]
       ELSE IF n <= 0 THEN [tor |-> t, ret |-> FALSE]
       ELSE [tor |-> [t EXCEPT !.incompleteMetadata =
                          [metadata |-> tr_new_bytes(size.lo),
                           metadata_size |-> size.lo,
                           pieceCount |-> n,
                           piecesNeeded |-> AllPiecesNeeded(n)]],
             ret |-> TRUE]

\* bool tr_torrentSetMetadataSizeHint(tor, size); tr_new() is taken to succeed
\* (when it does not, the call returns false and changes nothing)
tr_torrentSetMetadataSizeHint(t, size) ==
    LET n == HintPieceCount(size)
    IN IF tr_torrentHasMetadata(t) THEN [tor |-> t, ret |-> FALSE]
       ELSE IF t.incompleteMetadata # NULL THEN [tor |-> t, ret |-> FALSE]
       ELSE IF n <= 0 THEN [tor |-> t, ret |-> FALSE]
       ELSE [tor |-> [t EXCEPT !.incompleteMetadata =
                          [metadata |-> tr_new_bytes(size.lo),
                           metadata_size |-> size.lo,
                           pieceCount |-> n,
                           piecesNeeded |-> AllPiecesNeeded(n)]],
             ret |-> TRUE]

\* a slip: a piece that is not needed is taken for the head of the list
getPieceNeededIndex_OrHead(m, piece) ==
    LET hits == {i \in 1..Len(m.piecesNeeded) : m.piecesNeeded[i].piece = piece}
    IN IF hits = {} THEN 0
       ELSE (CHOOSE i \in hits : \A j \in hits : i <= j) - 1

\* the 0-based position of `piece` in the needed list, -1 when it is not there
getPieceNeededIndex(m, piece) ==
    LET hits == {i \in 1..Len(m.piecesNeeded) : m.piecesNeeded[i].piece = piece}
    IN IF hits = {} THEN -1
       ELSE (CHOOSE i \in hits : \A j \in hits : i <= j) - 1

\* a slip: the last piece is taken to be as long as the others
getPieceLength_Fixed(m, piece) ==
    METADATA_PIECE_SIZE

getPieceLength(m, piece) ==
    IF piece + 1 = m.pieceCount
    THEN m.metadata_size - (piece * METADATA_PIECE_SIZE)
    ELSE METADATA_PIECE_SIZE

\* where tr_torrentSetMetadataPiece copies a piece's payload to
PieceOffset(piece) ==
    piece * METADATA_PIECE_SIZE

\* a slip: the count is not restored, the needed list stays empty
ResetPiecesNeeded_Empty(m) ==
    m

\* a slip: the buffer is allocated anew as well
ResetPiecesNeeded_Fresh(m) ==
    [m EXCEPT !.piecesNeeded = AllPiecesNeeded(m.pieceCount),
              !.metadata = tr_new_bytes(m.metadata_size)]

\* the `drat' branch: every piece is needed again, the buffer is kept
ResetPiecesNeeded(m) ==
    [m EXCEPT !.piecesNeeded = AllPiecesNeeded(m.pieceCount)]

\* a slip: the old files are removed only once the new info is kept
RemoveOldFiles_Late(dk) ==
    dk

\* tr_sys_path_remove(path); tr_torrentRemoveResume(tor): the old .torrent and
\* .resume files are removed as soon as the container has loaded
RemoveOldFiles(dk) ==
    [torrent |-> "absent", resume |-> FALSE]

\* a slip: the error is not raised
MetadataNotUsable_Silent(t) ==
    t

\* the derived piece size gives no block size
MetadataNotUsable(t) ==
    tr_torrentSetLocalError(t, "Magnet torrent's metadata is not usable")

\* a slip: the torrent starts after the verify whatever prefetchMagnetMetadata says
ScheduleVerify_Start(t) ==
    [t EXCEPT !.incompleteMetadata = NULL,
              !.isStopping = TRUE,
              !.magnetVerify = TRUE,
              !.startAfterVerify = TRUE,
              !.edited = TRUE]

\* the `success' branch: the state is freed, a stop and a verify are scheduled
ScheduleVerify(t) ==
    [t EXCEPT !.incompleteMetadata = NULL,
              !.isStopping = TRUE,
              !.magnetVerify = TRUE,
              !.startAfterVerify = ~t.prefetchMagnetMetadata,
              !.edited = TRUE]

\* "keep the new info": the derived tr_info and its length replace the old
\* ones, and the torrent is marked dirty
KeepNewInfo(t, d) ==
    [t EXCEPT !.info = [fileCount |-> d.fileCount,
                        pieceSize |-> d.pieceSize,
                        hash |-> t.info.hash],
              !.infoDictLength = BufLen(d.bytes),
              !.isDirty = TRUE]

\* tr_torrentSetMetadataPiece once the needed list is empty: checksum, parse,
\* merge into the .torrent container, derive the tr_info, then keep or retry.
\* m is the state with the last piece stored.
CompleteMetadata(t, dk, d, m) ==
    LET checksumPassed == tr_sha1(m.metadata) = t.info.hash
        metainfoParsed == checksumPassed /\ tr_variantFromBenc(d, m.metadata) = 0
        loaded         == metainfoParsed /\ tr_variantFromFile(dk)
        dk1            == IF loaded THEN RemoveOldFiles(dk) ELSE dk
        derived        == loaded /\ tr_metainfoParse(d)
        unusable       == derived /\ tr_getBlockSize(d.pieceSize) = 0
        success        == derived /\ ~unusable
        t1             == IF unusable THEN MetadataNotUsable(t) ELSE t
    IN IF success
       THEN [tor |-> ScheduleVerify(KeepNewInfo(t1, d)),
             disk |-> [dk1 EXCEPT !.torrent = "full"],
             outcome |-> "installed"]
       ELSE [tor |-> [t1 EXCEPT !.incompleteMetadata = ResetPiecesNeeded(m)],
             disk |-> dk1,
             outcome |-> IF ~checksumPassed THEN "checksum-failed"
                         ELSE IF ~metainfoParsed THEN "parse-failed"
                         ELSE IF ~loaded THEN "load-failed"
                         ELSE IF ~derived THEN "metainfo-failed"
                         ELSE "unusable"]

\* void tr_torrentSetMetadataPiece(tor, piece, data, len), data being len bytes of value val
tr_torrentSetMetadataPiece(t, dk, d, piece, val, len) ==
    LET m == t.incompleteMetadata
    IN IF m = NULL THEN [tor |-> t, disk |-> dk, outcome |-> "no-state"]
       ELSE IF piece < 0 \/ piece >= m.pieceCount
            THEN [tor |-> t, disk |-> dk, outcome |-> "bad-index"]
       ELSE IF getPieceLength(m, piece) # len
            THEN [tor |-> t, disk |-> dk, outcome |-> "bad-length"]
       ELSE LET idx == getPieceNeededIndex(m, piece)
            IN IF idx = -1 THEN [tor |-> t, disk |-> dk, outcome |-> "not-needed"]
               ELSE LET m1 == [m EXCEPT
                                 !.metadata = memcpy(m.metadata, PieceOffset(piece), val, len),
                                 !.piecesNeeded = tr_removeElementFromArray(m.piecesNeeded, idx)]
                    IN IF Len(m1.piecesNeeded) = 0
                       THEN CompleteMetadata(t, dk, d, m1)
                       ELSE [tor |-> [t EXCEPT !.incompleteMetadata = m1],
                             disk |-> dk,
                             outcome |-> "stored"]

\* a slip: the head is due as soon as the interval has passed (<= for <)
RequestDue_AtInterval(m, now) ==
    m.piecesNeeded[1].requestedAt + MIN_REPEAT_INTERVAL_SECS <= now

\* a slip: no throttle at all
RequestDue_Always(m, now) ==
    TRUE

\* whether the head of the needed list may be requested at `now`
RequestDue(m, now) ==
    m.piecesNeeded[1].requestedAt + MIN_REPEAT_INTERVAL_SECS < now

\* a slip: the head is stamped and stays the head
MoveHeadToTail_StampOnly(needed, now) ==
    <<[piece |-> needed[1].piece, requestedAt |-> now]>> \o Tail(needed)

\* the head of the needed list leaves it and comes back as its last entry, stamped `now`
MoveHeadToTail(needed, now) ==
    tr_removeElementFromArray(needed, 0)
        \o <<[piece |-> needed[1].piece, requestedAt |-> now]>>

\* bool tr_torrentGetNextMetadataRequest(tor, now, &piece); `piece' is set only
\* when the call returns true, and is -1 here otherwise
tr_torrentGetNextMetadataRequest(t, now) ==
    LET m == t.incompleteMetadata
    IN IF m # NULL /\ Len(m.piecesNeeded) > 0 /\ RequestDue(m, now)
       THEN [tor |-> [t EXCEPT !.incompleteMetadata.piecesNeeded = MoveHeadToTail(m.piecesNeeded, now)],
             ret |-> TRUE,
             piece |-> m.piecesNeeded[1].piece]
       ELSE [tor |-> t, ret |-> FALSE, piece |-> -1]

(***************************************************************************)
(* Initial states                                                          *)
(***************************************************************************)
\* what the info dictionary named by the infohash can be: not bencoded; bencoded
\* but no tr_info derivable; a piece size that gives block size 0; usable
InfoDicts ==
    {[bytes |-> Bytes(s, "good"), isBenc |-> k[1], metainfoOk |-> k[2],
      pieceSize |-> k[3], fileCount |-> 1] :
        s \in {TrueSize},
        k \in {<<FALSE, FALSE, 0>>, <<TRUE, FALSE, 0>>,
                <<TRUE, TRUE, MAX_BLOCK_SIZE + 1>>, <<TRUE, TRUE, 2 * MAX_BLOCK_SIZE>>}}

\* a torrent added from a magnet link: the infohash is known, the info is not
MagnetTorrent(d, prefetch) ==
    [info |-> [fileCount |-> 0, pieceSize |-> 0, hash |-> tr_sha1(d.bytes)],
     incompleteMetadata |-> NULL,
     infoDictLength |-> 0,
     infoDictOffset |-> 0,
     infoDictOffsetIsCached |-> FALSE,
     error |-> "TR_STAT_OK",
     errorString |-> "",
     isStopping |-> FALSE,
     magnetVerify |-> FALSE,
     startAfterVerify |-> FALSE,
     prefetchMagnetMetadata |-> prefetch,
     isDirty |-> FALSE,
     edited |-> FALSE]

\* a torrent added from a .torrent file: it has its metadata
FullTorrent(d) ==
    [MagnetTorrent(d, FALSE) EXCEPT
        !.info = [fileCount |-> d.fileCount, pieceSize |-> d.pieceSize, hash |-> tr_sha1(d.bytes)],
        !.infoDictLength = BufLen(d.bytes)]

\* What is kept of the last call: which (`op'), how it ended (`outcome'), the
\* piece a request returned (-1: none), and for a request that returned the
\* watched piece again: the seconds since it last did (`gap', -1 otherwise),
\* whether the needed list was reset in between, the pieces needed at both
\* calls (`common') and those of them no request returned in between (`missed').
NoCall ==
    [op |-> "none", outcome |-> "none", piece |-> -1, gap |-> -1, reset |-> FALSE,
     common |-> {}, missed |-> {}]

\* The history of one piece, picked at the start: `at' is the clock reading of
\* the last request that returned it (-1: none yet), `reset' whether a failed
\* assembly has reset the needed list since, `together' the other pieces that
\* were needed at that request and `owed' those of them that no request has
\* returned since.
NoHistory(p) ==
    [piece |-> p, at |-> -1, reset |-> FALSE, together |-> {}, owed |-> {}]

\* the info dictionaries a tr_info with a usable piece size derives from
UsableInfoDicts ==
    {d \in InfoDicts : d.isBenc /\ d.metainfoOk /\ tr_getBlockSize(d.pieceSize) # 0}

\* the persisted files of a torrent added from a magnet link: a stub of a
\* .torrent container beside a .resume file, or neither
MagnetDisks ==
    {[torrent |-> "magnet-stub", resume |-> TRUE], [torrent |-> "absent", resume |-> FALSE]}

InitWith(senders, start, watched, dicts, disks, prefetches) ==
    /\ infoDict \in dicts
    /\ \/ /\ \E prefetch \in prefetches : tor = MagnetTorrent(infoDict, prefetch)
          /\ disk \in disks
       \/ /\ infoDict \in UsableInfoDicts
          /\ tor = FullTorrent(infoDict)
          /\ disk = [torrent |-> "full", resume |-> TRUE]
    /\ clock = start
    /\ peers = senders
    /\ last = NoCall
    /\ \E p \in watched : hist = NoHistory(p)
    /\ returns = <<>>

\* the main specification: peers send anything, late enough for every piece
\* to be due; no piece's history is kept (piece -1 is never returned)
Init ==
    InitWith(AnyPeers, MaxTime - 1, {-1}, InfoDicts,
             {[torrent |-> "magnet-stub", resume |-> TRUE]}, {FALSE})

\* the timing specification: the clock runs from StartTime, assemblies fail,
\* and the history of the first or of the last piece is kept
InitTiming ==
    InitWith(BadPeers, StartTime, {0, MaxPieces - 1}, UsableInfoDicts,
             {[torrent |-> "magnet-stub", resume |-> TRUE]}, {FALSE})

\* peers of the installation specification: the true size or a wrong one,
\* every piece, right and wrong bytes, the two lengths a piece can have
InstallPeers ==
    [sizes |-> {Int64(0, s) : s \in GoodSizes},
     pieces |-> Pieces,
     vals |-> ByteVals,
     lens |-> {7232, METADATA_PIECE_SIZE}]

\* the installation specification: every kind of info dictionary with a
\* loadable .torrent container, and a usable one without a container or with
\* prefetch; no piece's history is kept
InitInstall ==
    \/ InitWith(InstallPeers, MaxTime - 1, {-1}, InfoDicts,
                {[torrent |-> "magnet-stub", resume |-> TRUE]}, {FALSE})
    \/ InitWith(InstallPeers, MaxTime - 1, {-1}, UsableInfoDicts,
                {[torrent |-> "magnet-stub", resume |-> TRUE]}, {TRUE})
    \/ InitWith(InstallPeers, MaxTime - 1, {-1}, UsableInfoDicts,
                {[torrent |-> "absent", resume |-> FALSE]}, {FALSE})

\* peers of the re-assembly specification: the true size, every piece, right
\* and wrong bytes
RetryPeers ==
    [sizes |-> {Int64(0, TrueSize)},
     pieces |-> Pieces,
     vals |-> ByteVals,
     lens |-> {7232, METADATA_PIECE_SIZE}]

\* the re-assembly specification: an installable info dictionary, a loadable
\* container; the history of the first piece is kept, so that a state shows
\* whether an assembly failed since that piece was requested
InitRetry ==
    InitWith(RetryPeers, MaxTime - 1, {0}, UsableInfoDicts,
             {[torrent |-> "magnet-stub", resume |-> TRUE]}, {FALSE})

(***************************************************************************)
(* Actions: the public calls, and time passing                             *)
(***************************************************************************)
PiecesOf(needed) ==
    {needed[i].piece : i \in 1..Len(needed)}

NeededOf(t) ==
    IF t.incompleteMetadata = NULL THEN <<>> ELSE t.incompleteMetadata.piecesNeeded

\* a peer advertises the size of the info dictionary
SizeHint(size) ==
    LET r == tr_torrentSetMetadataSizeHint(tor, size)
    IN /\ tor' = r.tor
       /\ last' = [NoCall EXCEPT !.op = "hint",
                                 !.outcome = IF r.ret THEN "accepted" ELSE "rejected"]
       /\ UNCHANGED <<disk, infoDict, clock, peers, hist, returns>>

InstallFailures ==
    {"checksum-failed", "parse-failed", "load-failed", "metainfo-failed", "unusable"}

\* a peer delivers a metadata piece
Deliver(piece, val, len) ==
    LET r == tr_torrentSetMetadataPiece(tor, disk, infoDict, piece, val, len)
    IN /\ tor' = r.tor
       /\ disk' = r.disk
       /\ last' = [NoCall EXCEPT !.op = "deliver", !.outcome = r.outcome]
       /\ hist' = IF r.outcome \in InstallFailures /\ hist.at # -1
                  THEN [hist EXCEPT !.reset = TRUE]
                  ELSE hist
       /\ UNCHANGED <<infoDict, clock, peers, returns>>

\* the session asks which piece to request next, at the current clock reading
Request ==
    LET r == tr_torrentGetNextMetadataRequest(tor, clock)
        p == r.piece
        before == PiecesOf(NeededOf(tor))
    IN /\ tor' = r.tor
       /\ IF r.ret
          THEN /\ last' = IF p = hist.piece /\ hist.at # -1
                          THEN [op |-> "request", outcome |-> "piece", piece |-> p,
                                gap |-> clock - hist.at,
                                reset |-> hist.reset,
                                common |-> (hist.together \cap before) \ {p},
                                missed |-> (hist.owed \cap before) \ {p}]
                          ELSE [NoCall EXCEPT !.op = "request", !.outcome = "piece", !.piece = p]
               /\ hist' = IF p = hist.piece
                          THEN [hist EXCEPT !.at = clock, !.reset = FALSE,
                                            !.together = before \ {p}, !.owed = before \ {p}]
                          ELSE [hist EXCEPT !.owed = hist.owed \ {p}]
          ELSE /\ last' = [NoCall EXCEPT !.op = "request", !.outcome = "none"]
               /\ hist' = hist
       /\ UNCHANGED <<disk, infoDict, clock, peers, returns>>

\* time passes
Tick ==
    /\ clock < MaxTime
    /\ clock' = clock + 1
    /\ UNCHANGED <<tor, disk, infoDict, peers, last, hist, returns>>

Next ==
    \/ \E size \in peers.sizes : SizeHint(size)
    \/ \E piece \in peers.pieces, val \in peers.vals, len \in peers.lens : Deliver(piece, val, len)
    \/ Request
    \/ Tick

Spec == Init /\ [][Next]_vars

SpecTiming == InitTiming /\ [][Next]_vars

SpecInstall == InitInstall /\ [][Next]_vars

SpecRetry == InitRetry /\ [][Next]_vars

(***************************************************************************)
(* The request cycle: a fresh state of five pieces, no deliveries, one      *)
(* request per second                                                      *)
(***************************************************************************)
InitCycle ==
    /\ infoDict \in UsableInfoDicts
    /\ tor = tr_torrentSetMetadataSizeHint(MagnetTorrent(infoDict, FALSE),
                                           Int64(0, 5 * METADATA_PIECE_SIZE)).tor
    /\ disk = [torrent |-> "magnet-stub", resume |-> TRUE]
    /\ clock \in 1..CycleMaxStart
    /\ peers = BadPeers
    /\ last = [NoCall EXCEPT !.op = "hint", !.outcome = "accepted"]
    /\ hist = NoHistory(0)
    /\ returns = <<>>

\* next_request(clock), and a second passes
CycleCall ==
    LET r == tr_torrentGetNextMetadataRequest(tor, clock)
    IN /\ Len(returns) < CycleCalls
       /\ tor' = r.tor
       /\ returns' = Append(returns, r.piece)
       /\ clock' = clock + 1
       /\ last' = [NoCall EXCEPT !.op = "request",
                                 !.outcome = IF r.ret THEN "piece" ELSE "none",
                                 !.piece = r.piece]
       /\ UNCHANGED <<disk, infoDict, peers, hist>>

NextCycle ==
    CycleCall

SpecCycle == InitCycle /\ [][NextCycle]_vars

(***************************************************************************)
(* Claims about the request stream                                         *)
(***************************************************************************)
\* the clock reading of the first call of the request cycle
CycleStart ==
    clock - Len(returns)

\* the calls of the request cycle made before a never requested piece is due
CycleEarly ==
    IF CycleStart > MIN_REPEAT_INTERVAL_SECS THEN 0
    ELSE MIN_REPEAT_INTERVAL_SECS + 1 - CycleStart

\* C1, as claimed: ten successive next_request calls, one second apart, on a
\* fresh state of 5 pieces return 0, 1, 2, 3, 4, none, none, none, 0, 1
\* (none is -1).
C1_AsClaimed ==
    Len(returns) = 10 => returns = <<0, 1, 2, 3, 4, -1, -1, -1, 0, 1>>

\* C1, amended: calls made at a clock reading of 3 or less return none; from
\* reading 4 on every call returns a piece, cycling 0, 1, 2, 3, 4, 0, 1, ...:
\* no later call is throttled, each piece being back at the head 5 seconds
\* after its last request.  First call at 4 or later: 0,1,2,3,4,0,1,2,3,4.
C1_Cycle ==
    \A k \in 1..Len(returns) :
        returns[k] = IF k <= CycleEarly THEN -1 ELSE (k - 1 - CycleEarly) % 5

\* C1 witness: ten calls were made, the first at a reading of 4 or more, and
\* the sixth returned piece 0 again
C1_Witness ==
    /\ Len(returns) = 10
    /\ CycleStart >= 4
    /\ returns[6] = 0

\* the clock readings a request is tried at in the claims below
Nows ==
    0..(MaxTime + MIN_REPEAT_INTERVAL_SECS + 1)

\* C2, as claimed: next_request(now) returns none exactly when needed is
\* empty or needed[0].last_requested_at + 3 > now, and needed[0].piece
\* otherwise.
C2_AsClaimed ==
    \A now \in Nows :
        LET r == tr_torrentGetNextMetadataRequest(tor, now)
            needed == NeededOf(tor)
            none == needed = <<>> \/ needed[1].requestedAt + 3 > now
        IN /\ r.ret <=> ~none
           /\ r.ret => r.piece = needed[1].piece

\* C2, amended: next_request(now) returns none exactly when needed is empty
\* or needed[0].last_requested_at + 3 >= now, and needed[0].piece otherwise:
\* a head piece last requested exactly 3 seconds before now is not returned,
\* one requested 4 seconds before is.
C2_Throttle ==
    \A now \in Nows :
        LET r == tr_torrentGetNextMetadataRequest(tor, now)
            needed == NeededOf(tor)
            none == needed = <<>> \/ needed[1].requestedAt + 3 >= now
        IN /\ r.ret <=> ~none
           /\ r.ret => r.piece = needed[1].piece

\* C2 witness: a request has just returned none for a head piece that was
\* requested exactly 3 seconds before
C2_Witness ==
    /\ last.op = "request"
    /\ last.outcome = "none"
    /\ NeededOf(tor) # <<>>
    /\ NeededOf(tor)[1].requestedAt > 0
    /\ NeededOf(tor)[1].requestedAt + 3 = clock

\* C3, as claimed: two requests that return the same piece are at least 3
\* seconds apart, also when a failed assembly reset the list in between.
C3_AsClaimed ==
    (last.op = "request" /\ last.gap # -1) => last.gap >= 3

\* C3, amended: two requests that return the same piece, with no reset of the
\* needed list by a failed assembly between them, are at least 3 seconds
\* apart.  (A reset stamps every piece 0, so the piece is due at once.)
C3_Interval ==
    (last.op = "request" /\ last.gap # -1 /\ ~last.reset) => last.gap >= 3

\* C3 witness: the watched piece has just been returned a second time, with
\* no reset since the first
C3_Witness ==
    /\ last.op = "request"
    /\ last.gap # -1
    /\ ~last.reset

\* C4: the needed list is ordered by last_requested_at, non-decreasing from
\* head to tail
C4_Sorted ==
    LET needed == NeededOf(tor)
    IN \A i, j \in 1..Len(needed) :
           i < j => needed[i].requestedAt <= needed[j].requestedAt

\* C4 witness: a never requested piece at the head, followed by two pieces
\* requested at different times
C4_Witness ==
    LET needed == NeededOf(tor)
    IN /\ Len(needed) >= 3
       /\ needed[1].requestedAt = 0
       /\ needed[2].requestedAt > 0
       /\ needed[3].requestedAt > needed[2].requestedAt

\* C5, as claimed: between two requests that return the same piece, every
\* other piece needed at both has been returned by a request.
C5_AsClaimed ==
    (last.op = "request" /\ last.gap # -1) => last.missed = {}

\* C5, amended: the same, provided no failed assembly reset the needed list
\* between the two requests.
C5_Cycle ==
    (last.op = "request" /\ last.gap # -1 /\ ~last.reset) => last.missed = {}

\* C5 witness: the watched piece has just been returned a second time, no
\* reset since the first, and another piece was needed at both requests
C5_Witness ==
    /\ last.op = "request"
    /\ last.gap # -1
    /\ ~last.reset
    /\ last.common # {}

(***************************************************************************)
(* Claims about size hints and piece payloads                              *)
(***************************************************************************)
\* the needed list with the entry of `piece' taken out
WithoutPiece(needed, piece) ==
    SelectSeq(needed, LAMBDA e : e.piece # piece)

\* the length a payload of `piece' must have
ExpectedLen(m, piece) ==
    IF piece = m.pieceCount - 1
    THEN m.metadata_size - piece * 16384
    ELSE 16384

\* whether a payload is to be dropped
Dropped(t, piece, len) ==
    LET m == t.incompleteMetadata
    IN \/ m = NULL
       \/ piece < 0
       \/ piece >= m.pieceCount
       \/ len # ExpectedLen(m, piece)
       \/ piece \notin PiecesOf(m.piecesNeeded)

\* C6: set_size_hint returns false and leaves the torrent as it is when the
\* torrent has metadata, when an incomplete-metadata state exists (whatever
\* the new size), or when size <= 0 or size > INT_MAX
C6_HintRejected ==
    \A size \in HintSizes :
        LET r == tr_torrentSetMetadataSizeHint(tor, size)
        IN (\/ tr_torrentHasMetadata(tor)
            \/ tor.incompleteMetadata # NULL
            \/ I64NotPositive(size)
            \/ I64AboveIntMax(size))
           => (~r.ret /\ r.tor = tor)

\* C6 witness: a hint has just been rejected while a state exists whose needed
\* list was reset by a failed assembly (every piece needed, buffer written)
C6_Witness ==
    /\ last.op = "hint"
    /\ last.outcome = "rejected"
    /\ tor.incompleteMetadata # NULL
    /\ tor.incompleteMetadata.piecesNeeded = AllPiecesNeeded(tor.incompleteMetadata.pieceCount)
    /\ \A i \in 1..Len(tor.incompleteMetadata.metadata) :
           tor.incompleteMetadata.metadata[i].val # UNINIT

\* C7: set_size_hint(size), 0 < size <= INT_MAX, on a torrent without metadata
\* and without incomplete state returns true and creates a state with a buffer
\* of size bytes, piece_count = ceil(size / 16384) and needed = 0, 1, ...,
\* piece_count - 1, each with last_requested_at = 0
C7_HintAccepted ==
    \A size \in HintSizes :
        LET r == tr_torrentSetMetadataSizeHint(tor, size)
            m == r.tor.incompleteMetadata
        IN (/\ ~tr_torrentHasMetadata(tor)
            /\ tor.incompleteMetadata = NULL
            /\ ~I64NotPositive(size)
            /\ ~I64AboveIntMax(size))
           => /\ r.ret
              /\ m # NULL
              /\ BufLen(m.metadata) = size.lo
              /\ m.metadata_size = size.lo
              /\ (m.pieceCount - 1) * 16384 < size.lo
              /\ size.lo <= m.pieceCount * 16384
              /\ Len(m.piecesNeeded) = m.pieceCount
              /\ \A i \in 1..m.pieceCount :
                     m.piecesNeeded[i] = [piece |-> i - 1, requestedAt |-> 0]
              /\ r.tor = [tor EXCEPT !.incompleteMetadata = m]

\* C7 witness: a hint has just been accepted, for a size that is a multiple of
\* the piece size
C7_Witness ==
    /\ last.op = "hint"
    /\ last.outcome = "accepted"
    /\ tor.incompleteMetadata # NULL
    /\ tor.incompleteMetadata.metadata_size % 16384 = 0

\* C8: deliver changes nothing (torrent, buffer, needed, files) and attempts no
\* installation when no incomplete-metadata state exists, when piece_index is
\* out of range, when len is not the expected length, or when the piece is
\* not needed
C8_DeliverDropped ==
    \A piece \in AnyPeers.pieces, val \in AnyPeers.vals, len \in AnyPeers.lens :
        LET r == tr_torrentSetMetadataPiece(tor, disk, infoDict, piece, val, len)
        IN Dropped(tor, piece, len)
           => /\ r.tor = tor
              /\ r.disk = disk
              /\ r.outcome \notin InstallFailures \cup {"installed", "stored"}

\* C8 witness: a payload for the last piece has just been dropped for its
\* length (7233 for 7232), and the piece is still needed
C8_Witness ==
    /\ last.op = "deliver"
    /\ last.outcome = "bad-length"
    /\ tor.incompleteMetadata # NULL
    /\ tor.incompleteMetadata.metadata_size = TrueSize
    /\ (tor.incompleteMetadata.pieceCount - 1) \in PiecesOf(tor.incompleteMetadata.piecesNeeded)

\* C9: an accepted deliver writes the payload to buffer[piece*16384 ..
\* piece*16384 + len) and to no other byte, takes exactly the piece's entry
\* out of needed (order and timestamps of the others kept), and runs the
\* installation exactly when needed is empty then
C9_DeliverAccepted ==
    \A piece \in AnyPeers.pieces, val \in AnyPeers.vals, len \in AnyPeers.lens :
        LET r == tr_torrentSetMetadataPiece(tor, disk, infoDict, piece, val, len)
            m == tor.incompleteMetadata
            m1 == r.tor.incompleteMetadata
            rest == WithoutPiece(m.piecesNeeded, piece)
            off == piece * 16384
        IN ~Dropped(tor, piece, len)
           => /\ m1 # NULL =>
                    /\ BufLen(m1.metadata) = BufLen(m.metadata)
                    /\ SliceBytes(m1.metadata, 0, off) = SliceBytes(m.metadata, 0, off)
                    /\ SliceBytes(m1.metadata, off, len) = Bytes(len, val)
                    /\ SliceBytes(m1.metadata, off + len, m.metadata_size)
                           = SliceBytes(m.metadata, off + len, m.metadata_size)
              /\ Len(rest) = Len(m.piecesNeeded) - 1
              /\ rest # <<>> => (r.outcome = "stored" /\ m1.piecesNeeded = rest)
              /\ rest = <<>> => r.outcome \in InstallFailures \cup {"installed"}

\* C9 witness: a payload has just been stored, and two pieces with different
\* timestamps are still needed
C9_Witness ==
    /\ last.op = "deliver"
    /\ last.outcome = "stored"
    /\ Len(NeededOf(tor)) >= 2
    /\ NeededOf(tor)[1].requestedAt # NeededOf(tor)[2].requestedAt

\* the needed list after delivering a payload once, and twice in a row
NeededAfterOnce(piece, val, len) ==
    NeededOf(tr_torrentSetMetadataPiece(tor, disk, infoDict, piece, val, len).tor)

NeededAfterTwice(piece, val, len) ==
    LET r == tr_torrentSetMetadataPiece(tor, disk, infoDict, piece, val, len)
    IN NeededOf(tr_torrentSetMetadataPiece(r.tor, r.disk, infoDict, piece, val, len).tor)

\* C10, as claimed: in every ACQUIRING state, delivering a payload twice in a
\* row leaves needed as delivering it once does.
C10_AsClaimed ==
    tor.incompleteMetadata # NULL =>
        \A piece \in AnyPeers.pieces, val \in AnyPeers.vals, len \in AnyPeers.lens :
            NeededAfterTwice(piece, val, len) = NeededAfterOnce(piece, val, len)

\* C10, amended: the same, unless the first delivery completes an assembly of
\* two or more pieces whose installation fails: the reset then makes every
\* piece needed again, and the second delivery is accepted and takes the
\* piece out of needed again.
C10_Idempotent ==
    tor.incompleteMetadata # NULL =>
        \A piece \in AnyPeers.pieces, val \in AnyPeers.vals, len \in AnyPeers.lens :
            LET r == tr_torrentSetMetadataPiece(tor, disk, infoDict, piece, val, len)
            IN (r.outcome \in InstallFailures /\ tor.incompleteMetadata.pieceCount >= 2)
               \/ NeededAfterTwice(piece, val, len) = NeededAfterOnce(piece, val, len)

\* C10 witness: a payload has just been dropped because its piece, delivered
\* before, is no longer needed, while other pieces still are
C10_Witness ==
    /\ last.op = "deliver"
    /\ last.outcome = "not-needed"
    /\ Len(NeededOf(tor)) >= 1
    /\ Len(NeededOf(tor)) < tor.incompleteMetadata.pieceCount

(***************************************************************************)
(* Claims about the installation of an assembled info dictionary           *)
(***************************************************************************)
\* the orders in which n pieces can be delivered
Orders(n) ==
    {o \in [1..n -> 0..(n - 1)] : \A i, j \in 1..n : i # j => o[i] # o[j]}

\* the pieces of `order' delivered one after the other, each with its expected
\* length and bytes of value val; with `ask', a next_request call at the
\* current clock reading precedes each delivery.  The result is that of the
\* last delivery.
RECURSIVE DeliverAll(_, _, _, _, _, _)
DeliverAll(t, dk, d, order, val, ask) ==
    LET t0 == IF ask THEN tr_torrentGetNextMetadataRequest(t, clock).tor ELSE t
        len == IF t0.incompleteMetadata = NULL THEN 0
               ELSE ExpectedLen(t0.incompleteMetadata, Head(order))
        r == tr_torrentSetMetadataPiece(t0, dk, d, Head(order), val, len)
    IN IF Len(order) = 1 THEN r
       ELSE DeliverAll(r.tor, r.disk, d, Tail(order), val, ask)

\* the info dictionary installs once assembled: it is bencoded, a tr_info with
\* a usable piece size derives from it, and the .torrent container loads
Installable ==
    /\ infoDict \in UsableInfoDicts
    /\ tr_variantFromFile(disk)

\* C11: install atomicity.  Right after a complete assembly has failed its
\* checksum, delivering every piece again with the correct bytes, in whatever
\* order, with or without requests in between and with no size hint or other
\* reset by the caller, ends with the metadata installed (the info dictionary
\* being installable and the advertised size the true one).
C11_Reassembly ==
    (/\ last.op = "deliver"
     /\ last.outcome = "checksum-failed"
     /\ tor.incompleteMetadata.metadata_size = BufLen(infoDict.bytes)
     /\ Installable)
    => \A order \in Orders(tor.incompleteMetadata.pieceCount), ask \in BOOLEAN :
           LET r == DeliverAll(tor, disk, infoDict, order, "good", ask)
           IN /\ r.outcome = "installed"
              /\ r.tor.incompleteMetadata = NULL
              /\ tr_torrentHasMetadata(r.tor)

\* C11 witness: the metadata has just been installed, and an assembly had
\* failed since the first piece was last requested
C11_Witness ==
    /\ last.op = "deliver"
    /\ last.outcome = "installed"
    /\ hist.reset
    /\ tr_torrentHasMetadata(tor)

\* whether a payload is accepted and is the last one needed
Completes(t, piece, len) ==
    /\ ~Dropped(t, piece, len)
    /\ PiecesOf(t.incompleteMetadata.piecesNeeded) = {piece}

\* the buffer once the payload is copied into it
Assembled(t, piece, val, len) ==
    memcpy(t.incompleteMetadata.metadata, piece * 16384, val, len)

\* whether the assembled buffer has the digest the infohash names
ChecksumPasses(t, piece, val, len) ==
    tr_sha1(Assembled(t, piece, val, len)) = t.info.hash

\* C12: when a complete assembly fails the comparison of its SHA-1 with the
\* infohash, or passes it and fails bencode parsing, the state stays with
\* needed = 0, 1, ..., piece_count - 1 in index order, every last_requested_at
\* 0, the buffer (with the last payload in it) and its size kept, and the
\* torrent's info, error state and persisted files unchanged
C12_ResetKept ==
    \A piece \in AnyPeers.pieces, val \in AnyPeers.vals, len \in AnyPeers.lens :
        LET r == tr_torrentSetMetadataPiece(tor, disk, infoDict, piece, val, len)
            m == tor.incompleteMetadata
            m1 == r.tor.incompleteMetadata
        IN (/\ Completes(tor, piece, len)
            /\ \/ ~ChecksumPasses(tor, piece, val, len)
               \/ ~infoDict.isBenc)
           => /\ r.outcome \in {"checksum-failed", "parse-failed"}
              /\ m1 # NULL
              /\ Len(m1.piecesNeeded) = m.pieceCount
              /\ \A i \in 1..m.pieceCount :
                     m1.piecesNeeded[i] = [piece |-> i - 1, requestedAt |-> 0]
              /\ m1.pieceCount = m.pieceCount
              /\ m1.metadata_size = m.metadata_size
              /\ m1.metadata = Assembled(tor, piece, val, len)
              /\ BufLen(m1.metadata) = m.metadata_size
              /\ r.tor = [tor EXCEPT !.incompleteMetadata = m1]
              /\ r.disk = disk

\* C12 witness: an assembly with the right digest has just failed bencode
\* parsing: every piece is needed again and the buffer still holds the bytes
C12_Witness ==
    /\ last.op = "deliver"
    /\ last.outcome = "parse-failed"
    /\ tor.incompleteMetadata # NULL
    /\ tor.incompleteMetadata.metadata = infoDict.bytes
    /\ Len(tor.incompleteMetadata.piecesNeeded) = MaxPieces
    /\ tor.error = "TR_STAT_OK"
    /\ disk = [torrent |-> "magnet-stub", resume |-> TRUE]

\* whether the assembled buffer gets as far as a derived tr_info
Derives(t, dk, d, piece, val, len) ==
    /\ Completes(t, piece, len)
    /\ ChecksumPasses(t, piece, val, len)
    /\ d.isBenc
    /\ tr_variantFromFile(dk)
    /\ d.metainfoOk

\* C13: when the assembled info dictionary passes checksum and parsing and the
\* derived piece size gives a block size of 0, the torrent gets a local error,
\* its info is not swapped, and the state is back with all piece_count pieces
\* needed
C13_Unusable ==
    \A piece \in AnyPeers.pieces, val \in AnyPeers.vals, len \in AnyPeers.lens :
        LET r == tr_torrentSetMetadataPiece(tor, disk, infoDict, piece, val, len)
            m == tor.incompleteMetadata
            m1 == r.tor.incompleteMetadata
        IN (/\ Derives(tor, disk, infoDict, piece, val, len)
            /\ tr_getBlockSize(infoDict.pieceSize) = 0)
           => /\ r.outcome = "unusable"
              /\ r.tor.error = "TR_STAT_LOCAL_ERROR"
              /\ r.tor.errorString = "Magnet torrent's metadata is not usable"
              /\ r.tor.info = tor.info
              /\ r.tor.infoDictLength = tor.infoDictLength
              /\ ~tr_torrentHasMetadata(r.tor)
              /\ m1 # NULL
              /\ Len(m1.piecesNeeded) = m.pieceCount
              /\ \A i \in 1..m.pieceCount :
                     m1.piecesNeeded[i] = [piece |-> i - 1, requestedAt |-> 0]

\* C13 witness: an info dictionary whose piece size gives block size 0 has just
\* been assembled: the torrent is in error and every piece is needed again
C13_Witness ==
    /\ last.op = "deliver"
    /\ last.outcome = "unusable"
    /\ tr_getBlockSize(infoDict.pieceSize) = 0
    /\ tor.error = "TR_STAT_LOCAL_ERROR"
    /\ Len(NeededOf(tor)) = MaxPieces

\* whether the payload completes an assembly that installs
Installs(t, dk, d, piece, val, len) ==
    /\ Derives(t, dk, d, piece, val, len)
    /\ tr_getBlockSize(d.pieceSize) # 0

\* C14, as claimed: a delivery that does not end in a successful installation
\* (dropped, stored, or an installation attempt failing at checksum, bencode
\* parse, container load, metainfo derivation or block size 0) leaves the
\* .torrent container and the .resume file exactly as they were.
C14_AsClaimed ==
    \A piece \in AnyPeers.pieces, val \in AnyPeers.vals, len \in AnyPeers.lens :
        LET r == tr_torrentSetMetadataPiece(tor, disk, infoDict, piece, val, len)
        IN ~Installs(tor, disk, infoDict, piece, val, len) => r.disk = disk

\* C14 witness: an installation attempt has just failed at metainfo derivation
\* or at the block size, the torrent has no metadata, and its .torrent
\* container and .resume file are gone
C14_Witness ==
    /\ last.op = "deliver"
    /\ last.outcome \in {"metainfo-failed", "unusable"}
    /\ ~tr_torrentHasMetadata(tor)
    /\ tor.incompleteMetadata # NULL
    /\ disk = [torrent |-> "absent", resume |-> FALSE]

\* C15: when the last needed piece is delivered and checksum, parse, container
\* load and metainfo derivation succeed with a nonzero block size, the
\* incomplete-metadata state is destroyed, the torrent's info and info-dict
\* length are the derived ones, the new container is written (and the .resume
\* file gone), the torrent is dirty and edited, isStopping and magnetVerify
\* are set, and startAfterVerify = not prefetchMagnetMetadata
C15_Installed ==
    \A piece \in AnyPeers.pieces, val \in AnyPeers.vals, len \in AnyPeers.lens :
        LET r == tr_torrentSetMetadataPiece(tor, disk, infoDict, piece, val, len)
        IN Installs(tor, disk, infoDict, piece, val, len)
           => /\ r.outcome = "installed"
              /\ r.tor.incompleteMetadata = NULL
              /\ r.tor.info.fileCount = infoDict.fileCount
              /\ r.tor.info.pieceSize = infoDict.pieceSize
              /\ r.tor.info.hash = tor.info.hash
              /\ r.tor.infoDictLength = BufLen(infoDict.bytes)
              /\ r.disk = [torrent |-> "full", resume |-> FALSE]
              /\ r.tor.isDirty
              /\ r.tor.edited
              /\ r.tor.isStopping
              /\ r.tor.magnetVerify
              /\ r.tor.startAfterVerify = ~tor.prefetchMagnetMetadata
              /\ r.tor.prefetchMagnetMetadata = tor.prefetchMagnetMetadata
              /\ r.tor.error = tor.error
              /\ r.tor.errorString = tor.errorString

\* C15 witness: the metadata of a torrent that only prefetches it has just
\* been installed: no start after the verify
C15_Witness ==
    /\ last.op = "deliver"
    /\ last.outcome = "installed"
    /\ tor.incompleteMetadata = NULL
    /\ tor.prefetchMagnetMetadata
    /\ ~tor.startAfterVerify
    /\ tor.magnetVerify
    /\ disk.torrent = "full"

\* C16: whenever the incomplete-metadata state exists, between public calls,
\* 1 <= |needed| <= piece_count and the entries of needed carry pairwise
\* distinct piece indices in [0, piece_count)
C16_NeededInvariant ==
    tor.incompleteMetadata # NULL =>
        LET m == tor.incompleteMetadata
            needed == m.piecesNeeded
        IN /\ 1 <= Len(needed)
           /\ Len(needed) <= m.pieceCount
           /\ \A i \in 1..Len(needed) :
                  /\ 0 <= needed[i].piece
                  /\ needed[i].piece < m.pieceCount
           /\ \A i, j \in 1..Len(needed) :
                  i # j => needed[i].piece # needed[j].piece

\* C16 witness: the last needed piece has just been delivered and the
\* installation failed: the state is there, with every piece needed
C16_Witness ==
    /\ last.op = "deliver"
    /\ last.outcome \in InstallFailures
    /\ tor.incompleteMetadata # NULL
    /\ tor.incompleteMetadata.pieceCount = MaxPieces
    /\ PiecesOf(NeededOf(tor)) = Pieces

\* C17: INSTALLED is terminal.  Once the torrent has its metadata and no
\* incomplete-metadata state, every call leaves the torrent and its files as
\* they are: a size hint is rejected, a delivery finds no state, a request
\* returns none, and no incomplete-metadata state comes back.
C17_Terminal ==
    [][(tr_torrentHasMetadata(tor) /\ tor.incompleteMetadata = NULL)
       => /\ tor' = tor
          /\ disk' = disk
          /\ tr_torrentHasMetadata(tor') /\ tor'.incompleteMetadata = NULL
          /\ \/ last' = last
             \/ last'.op = "hint" /\ last'.outcome = "rejected"
             \/ last'.op = "deliver" /\ last'.outcome = "no-state"
             \/ last'.op = "request" /\ last'.outcome = "none"]_vars

\* C17 witness: the metadata was installed by this state machine (a verify is
\* scheduled), and a size hint has just been rejected
C17_Witness ==
    /\ tor.magnetVerify
    /\ tr_torrentHasMetadata(tor)
    /\ tor.incompleteMetadata = NULL
    /\ last.op = "hint"
    /\ last.outcome = "rejected"

(***************************************************************************)
(* Range I/O and piece verification (inout): tr_ioFindFileLocation,         *)
(* tr_ioRead, tr_ioPrefetch, tr_ioWrite, tr_ioTestPiece.                    *)
(*                                                                         *)
(* Here `tor' is a torrent that has its metadata: tor.info holds the file   *)
(* table, the piece size and the piece digests.  `disk' is the torrent's    *)
(* files: for each file whether it exists, the handle the file handle cache *)
(* keeps for it, and its bytes.  A byte array is a sequence of integers.    *)
(* The content the piece digests name has byte g + 1 at global offset g; a  *)
(* file that was created and never written reads as zeros.                  *)
(***************************************************************************)
\* largest total size of a torrent of the I/O specification
MaxTotal == 5

TR_IO_READ == "TR_IO_READ"

TR_IO_PREFETCH == "TR_IO_PREFETCH"

TR_IO_WRITE == "TR_IO_WRITE"

\* the file table of files of the given lengths: offsets are cumulative
RECURSIVE FileTable(_, _, _)
FileTable(lengths, index, offset) ==
    IF lengths = <<>> THEN <<>>
    ELSE <<[name |-> "file" \o ToString(index), length |-> Head(lengths), offset |-> offset]>>
             \o FileTable(Tail(lengths), index + 1, offset + Head(lengths))

\* collaborators outside the source files
\* tr_pieceOffset(tor, index, offset, length): a global byte offset
tr_pieceOffset(t, index, offset, length) ==
    index * t.info.pieceSize + offset + length

\* tr_torPieceCountBytes(tor, piece): the last piece may be short
tr_torPieceCountBytes(t, piece) ==
    IF piece + 1 = t.info.pieceCount
    THEN t.info.totalSize - piece * t.info.pieceSize
    ELSE t.info.pieceSize

\* tr_fdFileGetCached(session, torrentId, fileIndex, doWrite): whether the
\* cache holds a handle of the file that serves the mode
tr_fdFileGetCached(f, doWrite) ==
    f.handle = "rw" \/ (f.handle = "ro" /\ ~doWrite)

\* tr_torrentFindFile2(tor, fileIndex, ...): whether the file is on disk
tr_torrentFindFile2(f) ==
    f.exists

\* tr_fdFileCheckout(...): the file is opened, and created when writing; a
\* created file has its length and reads as zeros
tr_fdFileCheckout(f, doWrite, length) ==
    [f EXCEPT !.exists = TRUE,
              !.handle = IF doWrite THEN "rw" ELSE "ro",
              !.data = IF f.exists THEN f.data ELSE [i \in 1..length |-> 0]]

\* one call of a collaborator, as the calls below are logged: which, on which
\* file or piece (0-based, -1: none), at which offset and for how many bytes
Called(call, index, offset, len) ==
    [call |-> call, index |-> index, offset |-> offset, len |-> len]

\* tr_sha1_init / tr_sha1_update / tr_sha1_final: the digest of the bytes fed
\* in, taken as collision-free
tr_sha1_init ==
    <<>>

tr_sha1_update(sha, bytes) ==
    sha \o bytes

tr_sha1_final(sha) ==
    <<"sha1", sha>>

\* bytes [offset, offset + n) of a byte array
ReadAt(data, offset, n) ==
    SubSeq(data, offset + 1, offset + n)

\* a byte array with bytes [offset, offset + Len(buf)) replaced by buf
WriteAt(data, offset, buf) ==
    [i \in 1..Len(data) |->
        IF offset < i /\ i <= offset + Len(buf) THEN buf[i - offset] ELSE data[i]]

Min(a, b) ==
    IF a <= b THEN a ELSE b

\* a slip: a file without bytes is served like any other
EmptyFile_Never(file) ==
    FALSE

\* if (file->length == 0) return 0
EmptyFile(file) ==
    file.length = 0

\* a slip: the prefetch mode is taken for a writing one
DoWrite_Prefetch(ioMode) ==
    ioMode # TR_IO_READ

\* bool const doWrite = ioMode >= TR_IO_WRITE
DoWrite(ioMode) ==
    ioMode = TR_IO_WRITE

\* a slip: a missing file is no error in any mode
NotFound_Never(missing, doWrite) ==
    "OK"

\* if (!tr_torrentFindFile2(...)) { if (!doWrite) err = ENOENT; ... }
NotFound(missing, doWrite) ==
    IF missing /\ ~doWrite THEN "ENOENT" ELSE "OK"

\* static int readOrWriteBytes(session, tor, ioMode, fileIndex, fileOffset, buf, buflen)
\* `buf' is the payload of a write; `data' in the result is what a read stored
readOrWriteBytes(t, dk, ioMode, fileIndex, fileOffset, buf, buflen) ==
    LET file == t.info.files[fileIndex + 1]
        f == dk[fileIndex + 1]
        doWrite == DoWrite(ioMode)
        cached == tr_fdFileGetCached(f, doWrite)
        missing == ~cached /\ ~tr_torrentFindFile2(f)
        \* err after "find the fd": ENOENT, the errno of a failed checkout, or none
        err1 == IF NotFound(missing, doWrite) # "OK" THEN NotFound(missing, doWrite)
                ELSE IF ~cached /\ f.fault = "open" THEN "EACCES"
                ELSE "OK"
        f1 == IF cached \/ err1 # "OK" THEN f ELSE tr_fdFileCheckout(f, doWrite, file.length)
        dk1 == [dk EXCEPT ![fileIndex + 1] = f1]
        log1 == <<Called("tr_fdFileGetCached", fileIndex, 0, 0)>>
                \o (IF cached THEN <<>> ELSE <<Called("tr_torrentFindFile2", fileIndex, 0, 0)>>)
                \o (IF cached \/ NotFound(missing, doWrite) # "OK" THEN <<>>
                    ELSE <<Called(IF doWrite THEN "tr_fdFileCheckout:create"
                                  ELSE "tr_fdFileCheckout:open", fileIndex, 0, file.length)>>)
        failed == f.fault = "io"
    IN IF EmptyFile(file)
       THEN [err |-> "OK", disk |-> dk, data |-> <<>>, log |-> <<>>]
       ELSE IF err1 # "OK"
       THEN [err |-> err1, disk |-> dk, data |-> <<>>, log |-> log1]
       ELSE IF ioMode = TR_IO_READ
       THEN [err |-> IF failed THEN "EIO" ELSE "OK",
             disk |-> dk1,
             data |-> IF failed THEN <<>> ELSE ReadAt(f1.data, fileOffset, buflen),
             log |-> log1 \o <<Called("tr_sys_file_read_at", fileIndex, fileOffset, buflen)>>]
       ELSE IF ioMode = TR_IO_WRITE
       THEN [err |-> IF failed THEN "EIO" ELSE "OK",
             disk |-> IF failed THEN dk1
                      ELSE [dk1 EXCEPT ![fileIndex + 1].data = WriteAt(f1.data, fileOffset, buf)],
             data |-> <<>>,
             log |-> log1 \o <<Called("tr_sys_file_write_at", fileIndex, fileOffset, buflen)>>]
       ELSE [err |-> "OK", disk |-> dk1, data |-> <<>>,
             log |-> log1 \o <<Called("tr_sys_file_advise", fileIndex, fileOffset, buflen)>>]

\* a slip in the comparison: a file is taken to hold the offset just past its end
compareOffsetToFile_PastEnd(offset, file) ==
    IF offset < file.offset THEN -1
    ELSE IF offset > file.offset + file.length THEN 1
    ELSE 0

\* static int compareOffsetToFile(a, b)
compareOffsetToFile(offset, file) ==
    IF offset < file.offset THEN -1
    ELSE IF offset >= file.offset + file.length THEN 1
    ELSE 0

\* bsearch(&offset, files, fileCount, sizeof(tr_file), compareOffsetToFile) over
\* files[lo .. hi): the 0-based index of a file that compares equal, -1 for none
RECURSIVE bsearch(_, _, _, _)
bsearch(key, files, lo, hi) ==
    IF lo >= hi THEN -1
    ELSE LET mid == (lo + hi) \div 2
             c == compareOffsetToFile(key, files[mid + 1])
         IN IF c < 0 THEN bsearch(key, files, lo, mid)
            ELSE IF c > 0 THEN bsearch(key, files, mid + 1, hi)
            ELSE mid

\* void tr_ioFindFileLocation(tor, pieceIndex, pieceOffset, &fileIndex, &fileOffset);
\* callers keep the offset below totalSize, so a file is found
tr_ioFindFileLocation(t, pieceIndex, pieceOffset) ==
    LET offset == tr_pieceOffset(t, pieceIndex, pieceOffset, 0)
        found == bsearch(offset, t.info.files, 0, t.info.fileCount)
    IN [fileIndex |-> found,
        fileOffset |-> IF found = -1 THEN 0 ELSE offset - t.info.files[found + 1].offset]

\* a slip: the offset in the next file is not reset
NextFileOffset_Kept(fileOffset) ==
    fileOffset

\* fileOffset = 0: every file after the first is served from its start
NextFileOffset(fileOffset) ==
    0

\* a slip: a failed write sets the local error again over the one there is
MarkWriteError_Again(t, ioMode, err, name) ==
    IF err # "OK" /\ ioMode = TR_IO_WRITE
    THEN tr_torrentSetLocalError(t, err \o " (" \o name \o ")")
    ELSE t

\* if (err != 0 && ioMode == TR_IO_WRITE && tor->error != TR_STAT_LOCAL_ERROR)
\*     tr_torrentSetLocalError(tor, "%s (%s)", tr_strerror(err), path)
MarkWriteError(t, ioMode, err, name) ==
    IF err # "OK" /\ ioMode = TR_IO_WRITE /\ t.error # "TR_STAT_LOCAL_ERROR"
    THEN tr_torrentSetLocalError(t, err \o " (" \o name \o ")")
    ELSE t

\* a slip: the loop goes on to the next file after a step that failed
StepFailed_Ignored(err) ==
    FALSE

\* while (buflen != 0 && err == 0): a step that failed ends the loop
StepFailed(err) ==
    err # "OK"

\* the while loop of readOrWritePiece: `buf' is what is left of the payload of
\* a write, `out' what a read has stored so far;
\* `log' the calls made so far
RECURSIVE PieceLoop(_, _, _, _, _, _, _, _, _)
RECURSIVE PieceStep(_, _, _, _, _, _, _, _, _, _)
\* the rest of a pass of the loop, once readOrWriteBytes has returned r for
\* bytesThisPass bytes of the file
PieceStep(t, ioMode, fileIndex, fileOffset, bytesThisPass, buf, buflen, out, log, r) ==
    IF StepFailed(r.err)
    THEN [err |-> r.err,
          tor |-> MarkWriteError(t, ioMode, r.err, t.info.files[fileIndex + 1].name),
          disk |-> r.disk, buf |-> out, log |-> log \o r.log]
    ELSE PieceLoop(MarkWriteError(t, ioMode, r.err, t.info.files[fileIndex + 1].name),
                   r.disk, ioMode, fileIndex + 1, NextFileOffset(fileOffset),
                   SubSeq(buf, bytesThisPass + 1, Len(buf)),
                   buflen - bytesThisPass, out \o r.data, log \o r.log)

PieceLoop(t, dk, ioMode, fileIndex, fileOffset, buf, buflen, out, log) ==
    IF buflen = 0 THEN [err |-> "OK", tor |-> t, disk |-> dk, buf |-> out, log |-> log]
    ELSE IF fileIndex < 0 \/ fileIndex >= t.info.fileCount
         \/ fileOffset > t.info.files[fileIndex + 1].length
    THEN [err |-> "out-of-bounds", tor |-> t, disk |-> dk, buf |-> out, log |-> log]
    ELSE LET bytesThisPass == Min(buflen, t.info.files[fileIndex + 1].length - fileOffset)
         IN PieceStep(t, ioMode, fileIndex, fileOffset, bytesThisPass, buf, buflen, out,
                      Append(log, Called("readOrWriteBytes", fileIndex, fileOffset,
                                         bytesThisPass)),
                      readOrWriteBytes(t, dk, ioMode, fileIndex, fileOffset,
                                       SubSeq(buf, 1, bytesThisPass), bytesThisPass))

\* a slip: the piece index one past the last is let through
InvalidPiece_Past(t, pieceIndex) ==
    pieceIndex > t.info.pieceCount

\* if (pieceIndex >= tor->info.pieceCount) return EINVAL
InvalidPiece(t, pieceIndex) ==
    pieceIndex >= t.info.pieceCount

\* readOrWritePiece from the file location `loc' on
Located(t, dk, ioMode, buf, buflen, loc) ==
    PieceLoop(t, dk, ioMode, loc.fileIndex, loc.fileOffset, buf, buflen, <<>>,
              <<Called("tr_ioFindFileLocation", loc.fileIndex, loc.fileOffset, 0)>>)

\* static int readOrWritePiece(tor, ioMode, pieceIndex, pieceOffset, buf, buflen)
readOrWritePiece(t, dk, ioMode, pieceIndex, pieceOffset, buf, buflen) ==
    IF InvalidPiece(t, pieceIndex)
    THEN [err |-> "EINVAL", tor |-> t, disk |-> dk, buf |-> <<>>, log |-> <<>>]
    ELSE Located(t, dk, ioMode, buf, buflen, tr_ioFindFileLocation(t, pieceIndex, pieceOffset))

\* int tr_ioRead(tor, pieceIndex, begin, len, buf)
tr_ioRead(t, dk, pieceIndex, begin, len) ==
    readOrWritePiece(t, dk, TR_IO_READ, pieceIndex, begin, <<>>, len)

\* int tr_ioPrefetch(tor, pieceIndex, begin, len)
tr_ioPrefetch(t, dk, pieceIndex, begin, len) ==
    readOrWritePiece(t, dk, TR_IO_PREFETCH, pieceIndex, begin, <<>>, len)

\* int tr_ioWrite(tor, pieceIndex, begin, len, buf)
tr_ioWrite(t, dk, pieceIndex, begin, len, buf) ==
    readOrWritePiece(t, dk, TR_IO_WRITE, pieceIndex, begin, buf, len)

\* tr_cacheReadBlock(cache, tor, piece, offset, len, buf): the block as the
\* cache holds it when a write of it is pending, and read from the files
\* otherwise
tr_cacheReadBlock(t, dk, piece, offset, len) ==
    LET pending == {cb \in t.cache : cb.piece = piece /\ cb.offset = offset}
    IN IF pending # {}
       THEN [err |-> "OK", tor |-> t, disk |-> dk,
             buf |-> SubSeq((CHOOSE cb \in pending : TRUE).data, 1, len),
             log |-> <<Called("tr_cacheReadBlock", piece, offset, len)>>]
       ELSE [tr_ioRead(t, dk, piece, offset, len) EXCEPT
                !.log = <<Called("tr_cacheReadBlock", piece, offset, len),
                          Called("tr_ioRead", piece, offset, len)>> \o @]

\* a slip: the offset of the next block is not advanced
NextBlockOffset_Same(offset, len) ==
    offset

\* offset += len
NextBlockOffset(offset, len) ==
    offset + len

\* a slip: the block is read from the files, past the block cache
ReadBlock_Direct(t, dk, piece, offset, len) ==
    [tr_ioRead(t, dk, piece, offset, len) EXCEPT
        !.log = <<Called("tr_ioRead", piece, offset, len)>> \o @]

\* recalculateHash: tr_cacheReadBlock(tor->session->cache, tor, pieceIndex, offset, len, buffer)
ReadBlock(t, dk, piece, offset, len) ==
    tr_cacheReadBlock(t, dk, piece, offset, len)

\* a slip: the result of the block read is not looked at
BlockRead_Always(err) ==
    TRUE

\* success = tr_cacheReadBlock(...) == 0
BlockRead(err) ==
    err = "OK"

\* the while loop of recalculateHash
RECURSIVE HashLoop(_, _, _, _, _, _, _)
RECURSIVE HashStep(_, _, _, _, _, _, _)
\* the rest of a pass of the loop, once the block read has returned r
HashStep(pieceIndex, offset, bytesLeft, len, sha, log, r) ==
    IF ~BlockRead(r.err)
    THEN [success |-> FALSE, sha |-> sha, tor |-> r.tor, disk |-> r.disk, log |-> log \o r.log]
    ELSE HashLoop(r.tor, r.disk, pieceIndex, NextBlockOffset(offset, len),
                  bytesLeft - len, tr_sha1_update(sha, r.buf), log \o r.log)

HashLoop(t, dk, pieceIndex, offset, bytesLeft, sha, log) ==
    IF bytesLeft = 0 THEN [success |-> TRUE, sha |-> sha, tor |-> t, disk |-> dk, log |-> log]
    ELSE HashStep(pieceIndex, offset, bytesLeft, Min(bytesLeft, t.blockSize), sha, log,
                  ReadBlock(t, dk, pieceIndex, offset, Min(bytesLeft, t.blockSize)))

\* recalculateHash after the prefetch, whose result `fetched' is not looked at
HashBlocks(pieceIndex, bytesLeft, fetched) ==
    HashLoop(fetched.tor, fetched.disk, pieceIndex, 0, bytesLeft, tr_sha1_init,
             <<Called("tr_ioPrefetch", pieceIndex, 0, bytesLeft)>> \o fetched.log)

\* tr_sha1_final(sha, success ? setme : nullptr); return success
HashFinal(pieceIndex, r) ==
    [success |-> r.success,
     hash |-> IF r.success THEN tr_sha1_final(r.sha) ELSE UNINIT,
     tor |-> r.tor, disk |-> r.disk,
     log |-> Append(r.log, Called(IF r.success THEN "tr_sha1_final:setme"
                                  ELSE "tr_sha1_final:nullptr", pieceIndex, 0, 0))]

\* static bool recalculateHash(tor, pieceIndex, setme); `hash' is what setme
\* receives, and is meaningful only on success
recalculateHash(t, dk, pieceIndex) ==
    HashFinal(pieceIndex,
              HashBlocks(pieceIndex, tr_torPieceCountBytes(t, pieceIndex),
                         tr_ioPrefetch(t, dk, pieceIndex, 0,
                                       tr_torPieceCountBytes(t, pieceIndex))))

\* recalculateHash(tor, piece, hash) && memcmp(hash, tor->info.pieces[piece].hash, ...) == 0
Compared(t, piece, r) ==
    [ret |-> r.success /\ r.hash = t.info.pieces[piece + 1].hash,
     tor |-> r.tor, disk |-> r.disk,
     log |-> r.log \o (IF r.success THEN <<Called("memcmp", piece, 0, 0)>> ELSE <<>>)]

\* bool tr_ioTestPiece(tor, piece)
tr_ioTestPiece(t, dk, piece) ==
    Compared(t, piece, recalculateHash(t, dk, piece))

(***************************************************************************)
(* The I/O specification: a torrent with its metadata, and calls on it      *)
(***************************************************************************)
RECURSIVE SumSeq(_)
SumSeq(q) ==
    IF q = <<>> THEN 0 ELSE Head(q) + SumSeq(Tail(q))

\* the file lengths of the torrents of the I/O specification: up to three
\* files, zero-length ones anywhere, at least one byte in all
IoLengths ==
    {q \in UNION {[1..k -> 0..MaxTotal] : k \in 1..3} :
        SumSeq(q) >= 1 /\ SumSeq(q) <= MaxTotal}

\* piece size and block size of these torrents: the piece size is a multiple
\* of the block size
IoSizes ==
    {<<2, 1>>, <<3, 3>>, <<4, 2>>}

\* n bytes of the content the piece digests name, from global offset g on
TrueBytes(g, n) ==
    [i \in 1..n |-> g + i]

\* n bytes no piece of that content has
WrongBytes(n) ==
    [i \in 1..n |-> 0 - i]

\* the tr_torrent of a torrent with files of the given lengths
IoTorrent(lengths, pieceSize, blockSize) ==
    LET total == SumSeq(lengths)
        count == (total + pieceSize - 1) \div pieceSize
    IN [info |-> [files |-> FileTable(lengths, 0, 0),
                  fileCount |-> Len(lengths),
                  totalSize |-> total,
                  pieceSize |-> pieceSize,
                  pieceCount |-> count,
                  pieces |-> [p \in 1..count |->
                      [hash |-> tr_sha1_final(TrueBytes((p - 1) * pieceSize,
                                   Min(pieceSize, total - (p - 1) * pieceSize)))]]],
        blockSize |-> blockSize,
        cache |-> {},
        error |-> "TR_STAT_OK",
        errorString |-> ""]

\* the files of such a torrent before any call: all of them on disk, full
\* length and never written, or none of them; no file fails to open, and none
\* fails on access
IoDisk(lengths, present) ==
    [i \in 1..Len(lengths) |->
        [exists |-> present,
         handle |-> "closed",
         fault |-> "none",
         data |-> IF present THEN [j \in 1..lengths[i] |-> 0] ELSE <<>>]]

\* what is kept of the last call: its arguments and results, and the payload
\* of the write before it
NoIoCall ==
    [op |-> "none", piece |-> 0, begin |-> 0, len |-> 0, err |-> "OK", buf |-> <<>>,
     ret |-> FALSE, wrote |-> <<>>]

InitIo ==
    /\ \E lengths \in IoLengths, sizes \in IoSizes, present \in BOOLEAN :
           /\ tor = IoTorrent(lengths, sizes[1], sizes[2])
           /\ disk = IoDisk(lengths, present)
    /\ infoDict = NULL
    /\ clock = 0
    /\ peers = NULL
    /\ last = NoIoCall
    /\ hist = NoHistory(-1)
    /\ returns = <<>>

\* the ranges (piece, begin, len) of a torrent that lie within its total size
IoRanges(t) ==
    {r \in [piece : 0..(t.info.pieceCount - 1),
            begin : 0..(t.info.totalSize - 1),
            len : 1..t.info.totalSize] :
        tr_pieceOffset(t, r.piece, r.begin, r.len) <= t.info.totalSize}

\* the ranges the calls of the I/O specification are made with: from the
\* first or second byte of a piece, to the end of the piece or of the torrent
IoCalls(t) ==
    {r \in IoRanges(t) :
        /\ r.begin <= 1
        /\ \/ r.begin + r.len = tr_torPieceCountBytes(t, r.piece)
           \/ tr_pieceOffset(t, r.piece, r.begin, r.len) = t.info.totalSize}

\* the payloads a range is written with: the bytes the digests name, or others
Payloads(t, r) ==
    {TrueBytes(tr_pieceOffset(t, r.piece, r.begin, 0), r.len), WrongBytes(r.len)}

\* the first call: tr_ioWrite
IoWrite(r, buf) ==
    LET w == tr_ioWrite(tor, disk, r.piece, r.begin, r.len, buf)
    IN /\ last.op = "none"
       /\ tor' = w.tor
       /\ disk' = w.disk
       /\ last' = [NoIoCall EXCEPT !.op = "write", !.piece = r.piece, !.begin = r.begin,
                                   !.len = r.len, !.err = w.err, !.wrote = buf]
       /\ UNCHANGED <<infoDict, clock, peers, hist, returns>>

\* tr_ioRead, as the first call or of the range just written
IoRead(r) ==
    LET rd == tr_ioRead(tor, disk, r.piece, r.begin, r.len)
    IN /\ \/ last.op = "none"
          \/ /\ last.op = "write"
             /\ r = [piece |-> last.piece, begin |-> last.begin, len |-> last.len]
       /\ tor' = rd.tor
       /\ disk' = rd.disk
       /\ last' = [NoIoCall EXCEPT !.op = "read", !.piece = r.piece, !.begin = r.begin,
                                   !.len = r.len, !.err = rd.err, !.buf = rd.buf,
                                   !.wrote = last.wrote]
       /\ UNCHANGED <<infoDict, clock, peers, hist, returns>>

\* tr_ioTestPiece, as the first call or of the piece just written
IoTestPiece(piece) ==
    LET v == tr_ioTestPiece(tor, disk, piece)
    IN /\ \/ last.op = "none"
          \/ last.op = "write" /\ piece = last.piece
       /\ tor' = v.tor
       /\ disk' = v.disk
       /\ last' = [NoIoCall EXCEPT !.op = "verify", !.piece = piece,
                                   !.len = IF last.op = "write" THEN last.len ELSE 0,
                                   !.ret = v.ret, !.wrote = last.wrote]
       /\ UNCHANGED <<infoDict, clock, peers, hist, returns>>

NextIo ==
    \/ \E r \in IoCalls(tor) : \E buf \in Payloads(tor, r) : IoWrite(r, buf)
    \/ \E r \in IoCalls(tor) : IoRead(r)
    \/ \E piece \in 0..(tor.info.pieceCount - 1) : IoTestPiece(piece)

SpecIo == InitIo /\ [][NextIo]_vars


(***************************************************************************)
(* The I/O specification with failures: files that are missing, that fail   *)
(* to open or that fail on access, piece indexes past the last piece, and   *)
(* blocks whose write is pending in the block cache                         *)
(***************************************************************************)
\* tr_cacheWriteBlock(cache, tor, piece, offset, len, writeme): the cache
\* accepts the block and keeps it pending; nothing is written to the files
tr_cacheWriteBlock(t, piece, offset, data) ==
    [t EXCEPT !.cache = {cb \in t.cache : ~(cb.piece = piece /\ cb.offset = offset)}
                        \cup {[piece |-> piece, offset |-> offset, data |-> data]}]

\* the file tables of the torrents of this specification
FaultLengths ==
    {<<2, 0, 2>>, <<1, 3>>, <<4>>}

\* their piece size and block size
FaultSizes ==
    {<<3, 1>>, <<4, 2>>}

\* how a file is found before any call: on disk or not, and whether opening
\* it (or creating it) fails, or reading and writing it
FileEnvs ==
    {[exists |-> TRUE, fault |-> "none"], [exists |-> FALSE, fault |-> "none"],
     [exists |-> TRUE, fault |-> "open"], [exists |-> FALSE, fault |-> "open"],
     [exists |-> TRUE, fault |-> "io"]}

FaultDisk(lengths, env) ==
    [i \in 1..Len(lengths) |->
        [exists |-> env[i].exists,
         handle |-> "closed",
         fault |-> env[i].fault,
         data |-> IF env[i].exists THEN [j \in 1..lengths[i] |-> 0] ELSE <<>>]]

\* what is kept of the last call: its arguments, what it returned, the calls
\* it made, the error state before it, whether it changed a byte of a file,
\* and whether a call was made before it
NoFaultCall ==
    [op |-> "none", piece |-> 0, begin |-> 0, len |-> 0, err |-> "OK", ret |-> FALSE,
     log |-> <<>>, errorBefore |-> "TR_STAT_OK", errorStringBefore |-> "",
     wrote |-> FALSE, second |-> FALSE]

InitIoFaults ==
    /\ \E lengths \in FaultLengths, sizes \in FaultSizes :
       \E env \in [1..Len(lengths) -> FileEnvs] :
           /\ tor = IoTorrent(lengths, sizes[1], sizes[2])
           /\ disk = FaultDisk(lengths, env)
    /\ infoDict = NULL
    /\ clock = 0
    /\ peers = NULL
    /\ last = NoFaultCall
    /\ hist = NoHistory(-1)
    /\ returns = <<>>

\* the ranges the calls are made with: those of IoCalls, and one of the piece
\* past the last
FaultCalls(t) ==
    IoCalls(t) \cup {[piece |-> t.info.pieceCount, begin |-> 0, len |-> 1]}

\* the bytes the digests name for a range
TruePayload(t, r) ==
    TrueBytes(tr_pieceOffset(t, r.piece, r.begin, 0), r.len)

\* the blocks of a torrent: (piece, offset in the piece, length)
Blocks(t) ==
    {b \in [piece : 0..(t.info.pieceCount - 1), begin : 0..(t.info.pieceSize - 1),
            len : 1..t.blockSize] :
        /\ b.begin % t.blockSize = 0
        /\ b.begin < tr_torPieceCountBytes(t, b.piece)
        /\ b.len = Min(t.blockSize, tr_torPieceCountBytes(t, b.piece) - b.begin)}

\* whether two disks hold the same files with the same bytes
SameFiles(d1, d2) ==
    \A i \in DOMAIN d1 : d1[i].exists = d2[i].exists /\ d1[i].data = d2[i].data

\* a call is the first one, or follows one tr_ioWrite that was the first
MayCall ==
    last.op = "none" \/ (last.op = "write" /\ ~last.second)

Recorded(op, r, res) ==
    [NoFaultCall EXCEPT !.op = op, !.piece = r.piece, !.begin = r.begin, !.len = r.len,
                        !.err = res.err, !.log = res.log,
                        !.errorBefore = tor.error, !.errorStringBefore = tor.errorString,
                        !.wrote = ~SameFiles(disk, res.disk),
                        !.second = last.op # "none"]

FaultWrite(r) ==
    LET w == tr_ioWrite(tor, disk, r.piece, r.begin, r.len, TruePayload(tor, r))
    IN /\ MayCall
       /\ tor' = w.tor
       /\ disk' = w.disk
       /\ last' = Recorded("write", r, w)
       /\ UNCHANGED <<infoDict, clock, peers, hist, returns>>

FaultRead(r) ==
    LET rd == tr_ioRead(tor, disk, r.piece, r.begin, r.len)
    IN /\ MayCall
       /\ tor' = rd.tor
       /\ disk' = rd.disk
       /\ last' = Recorded("read", r, rd)
       /\ UNCHANGED <<infoDict, clock, peers, hist, returns>>

FaultPrefetch(r) ==
    LET p == tr_ioPrefetch(tor, disk, r.piece, r.begin, r.len)
    IN /\ MayCall
       /\ tor' = p.tor
       /\ disk' = p.disk
       /\ last' = Recorded("prefetch", r, p)
       /\ UNCHANGED <<infoDict, clock, peers, hist, returns>>

\* the cache accepts a block of the content the digests name: as the first
\* call, after another block, or after a write
CacheWrite(b) ==
    /\ MayCall \/ last.op = "cache"
    /\ tor' = tr_cacheWriteBlock(tor, b.piece, b.begin, TruePayload(tor, b))
    /\ last' = [NoFaultCall EXCEPT !.op = "cache", !.piece = b.piece, !.begin = b.begin,
                                   !.len = b.len, !.second = last.op # "none"]
    /\ UNCHANGED <<disk, infoDict, clock, peers, hist, returns>>

\* tr_ioTestPiece, as the first call, after a write, or after the cache has
\* accepted blocks
FaultTestPiece(piece) ==
    LET v == tr_ioTestPiece(tor, disk, piece)
        r == [piece |-> piece, begin |-> 0, len |-> tr_torPieceCountBytes(tor, piece)]
    IN /\ MayCall \/ last.op = "cache"
       /\ tor' = v.tor
       /\ disk' = v.disk
       /\ last' = [Recorded("verify", r, [err |-> "OK", log |-> v.log, disk |-> v.disk])
                       EXCEPT !.ret = v.ret]
       /\ UNCHANGED <<infoDict, clock, peers, hist, returns>>

NextIoFaults ==
    \/ \E r \in FaultCalls(tor) : FaultWrite(r)
    \/ \E r \in FaultCalls(tor) : FaultRead(r)
    \/ \E r \in FaultCalls(tor) : FaultPrefetch(r)
    \/ \E b \in Blocks(tor) : CacheWrite(b)
    \/ \E piece \in 0..(tor.info.pieceCount - 1) : FaultTestPiece(piece)

SpecIoFaults == InitIoFaults /\ [][NextIoFaults]_vars

(***************************************************************************)
(* Claims about the file locator, the range I/O and the verifier           *)
(***************************************************************************)
\* the torrent of the example: files A:1000, B:0, C:2000, piece size 512
ExampleTorrent ==
    IoTorrent(<<1000, 0, 2000>>, 512, 512)

\* the positions (piece, piece offset) of a torrent that name a byte of it
Positions(t) ==
    {q \in [piece : 0..(t.info.pieceCount - 1), offset : 0..(t.info.totalSize - 1)] :
        tr_pieceOffset(t, q.piece, q.offset, 0) < t.info.totalSize}

\* whether the file table is ordered for a search for offset g: the files
\* that end at or before g come first, then exactly one file that holds g,
\* then the files that start after g.  Any binary search then finds that file.
OrderedFor(t, g) ==
    LET c(i) == compareOffsetToFile(g, t.info.files[i])
    IN /\ \A i, j \in 1..t.info.fileCount : i < j => c(i) >= c(j)
       /\ Cardinality({i \in 1..t.info.fileCount : c(i) = 0}) = 1

\* C18: locator coverage.  For every position with global offset g below the
\* total size, locate returns a file and an offset with files[file].offset +
\* offset = g and offset < files[file].length, hence never a zero-length
\* file, and the comparison orders the table so that the search cannot miss;
\* in the example, locate(0, 0) = (A, 0), locate(1, 487) = (A, 999) and
\* locate(1, 488) = (C, 0)
C18_LocatorCoverage ==
    /\ \A q \in Positions(tor) :
           OrderedFor(tor, q.piece * tor.info.pieceSize + q.offset)
    /\ \A q \in Positions(tor) :
           LET g == q.piece * tor.info.pieceSize + q.offset
               loc == tr_ioFindFileLocation(tor, q.piece, q.offset)
           IN /\ loc.fileIndex >= 0
              /\ loc.fileIndex < tor.info.fileCount
              /\ tor.info.files[loc.fileIndex + 1].offset + loc.fileOffset = g
              /\ loc.fileOffset >= 0
              /\ loc.fileOffset < tor.info.files[loc.fileIndex + 1].length
              /\ tor.info.files[loc.fileIndex + 1].length # 0
    /\ tr_ioFindFileLocation(ExampleTorrent, 0, 0) = [fileIndex |-> 0, fileOffset |-> 0]
    /\ tr_ioFindFileLocation(ExampleTorrent, 1, 487) = [fileIndex |-> 0, fileOffset |-> 999]
    /\ tr_ioFindFileLocation(ExampleTorrent, 1, 488) = [fileIndex |-> 2, fileOffset |-> 0]

\* C18 witness: a call has just located the start of its range in a file
\* that follows a zero-length file, which itself follows a nonempty one
C18_Witness ==
    /\ last.op \in {"read", "write"}
    /\ last.err = "OK"
    /\ LET loc == tr_ioFindFileLocation(tor, last.piece, last.begin)
       IN /\ loc.fileIndex = 2
          /\ loc.fileOffset = 0
          /\ tor.info.files[2].length = 0
          /\ tor.info.files[1].length > 0

\* the byte at global offset g of the torrent's files; a file that is not on
\* disk has none ("none" is -1000, no byte of the model)
FileByte(t, dk, g) ==
    LET i == CHOOSE k \in 1..t.info.fileCount :
                 /\ t.info.files[k].offset <= g
                 /\ g < t.info.files[k].offset + t.info.files[k].length
    IN IF dk[i].exists THEN dk[i].data[g - t.info.files[i].offset + 1] ELSE 0 - 1000

\* whether file i has a byte in [g, g + len)
InRange(t, i, g, len) ==
    /\ t.info.files[i].length > 0
    /\ t.info.files[i].offset < g + len
    /\ g < t.info.files[i].offset + t.info.files[i].length

\* C19: split correctness.  For every range within the total size and every
\* payload, a successful write followed by a read of the same range returns
\* the payload, whatever file boundaries and zero-length files the range
\* crosses; every byte of the range is on disk at its global offset; a byte
\* outside the range is as it was (zero in a file the write created); a file
\* with no byte in the range is neither created nor changed
C19_SplitRoundTrip ==
    \A r \in IoRanges(tor) : \A buf \in Payloads(tor, r) :
        LET g == r.piece * tor.info.pieceSize + r.begin
            w == tr_ioWrite(tor, disk, r.piece, r.begin, r.len, buf)
            rd == tr_ioRead(w.tor, w.disk, r.piece, r.begin, r.len)
        IN w.err = "OK"
           => /\ rd.err = "OK"
              /\ rd.buf = buf
              /\ \A x \in 0..(tor.info.totalSize - 1) :
                     IF g <= x /\ x < g + r.len
                     THEN FileByte(tor, rd.disk, x) = buf[x - g + 1]
                     ELSE \/ FileByte(tor, rd.disk, x) = FileByte(tor, disk, x)
                          \/ /\ FileByte(tor, disk, x) = 0 - 1000
                             /\ FileByte(tor, rd.disk, x) = 0
              /\ \A i \in 1..tor.info.fileCount :
                     IF InRange(tor, i, g, r.len)
                     THEN rd.disk[i].exists
                     ELSE /\ rd.disk[i].exists = disk[i].exists
                          /\ rd.disk[i].data = disk[i].data
              /\ rd.tor = tor

\* C19 witness: a range that crosses a zero-length file and two file
\* boundaries has been written and then read, and the read returned the payload
C19_Witness ==
    /\ last.op = "read"
    /\ last.err = "OK"
    /\ last.wrote # <<>>
    /\ last.buf = last.wrote
    /\ tor.info.fileCount = 3
    /\ tor.info.files[2].length = 0
    /\ LET g == last.piece * tor.info.pieceSize + last.begin
       IN /\ InRange(tor, 1, g, last.len)
          /\ InRange(tor, 3, g, last.len)
          /\ g > 0

\* the payloads a whole piece is written with: the bytes its digest names,
\* those bytes with the last one changed, and others
PiecePayloads(t, piece) ==
    LET n == tr_torPieceCountBytes(t, piece)
        true == TrueBytes(piece * t.info.pieceSize, n)
    IN {true, [true EXCEPT ![n] = 0], WrongBytes(n)}

\* C20: hash round-trip.  If write(piece, 0, piece_length, data) succeeds and
\* verify(piece) is then called, verify returns true exactly when SHA1(data)
\* is the stored digest of the piece
C20_HashRoundTrip ==
    \A piece \in 0..(tor.info.pieceCount - 1) : \A data \in PiecePayloads(tor, piece) :
        LET w == tr_ioWrite(tor, disk, piece, 0, tr_torPieceCountBytes(tor, piece), data)
            v == tr_ioTestPiece(w.tor, w.disk, piece)
        IN w.err = "OK"
           => (v.ret <=> tr_sha1_final(data) = tor.info.pieces[piece + 1].hash)

\* C20 witness: a whole piece of several blocks that spans two files has been
\* written with the bytes its digest names, and verify has returned true
C20_Witness ==
    /\ last.op = "verify"
    /\ last.ret
    /\ last.wrote = TrueBytes(last.piece * tor.info.pieceSize, Len(last.wrote))
    /\ Len(last.wrote) = tr_torPieceCountBytes(tor, last.piece)
    /\ Len(last.wrote) > tor.blockSize
    /\ tr_ioFindFileLocation(tor, last.piece, 0).fileIndex
           # tr_ioFindFileLocation(tor, last.piece, Len(last.wrote) - 1).fileIndex

(***************************************************************************)
(* Claims about failures of the range I/O and of the verifier              *)
(***************************************************************************)
\* what tr_ioWrite does in the current state when called with range r
WriteOf(r) ==
    tr_ioWrite(tor, disk, r.piece, r.begin, r.len, TruePayload(tor, r))

\* whether the write left a local error there was as it was
ErrorKept(w) ==
    tor.error = "TR_STAT_LOCAL_ERROR" =>
        w.tor.error = tor.error /\ w.tor.errorString = tor.errorString

\* C21 (as stated): whenever tr_ioWrite returns a nonzero error code the
\* torrent is in the local-error state when the call returns, and a local
\* error there was before the call is left as it was.
C21_AsClaimed ==
    \A r \in FaultCalls(tor) :
        WriteOf(r).err # "OK" =>
            WriteOf(r).tor.error = "TR_STAT_LOCAL_ERROR" /\ ErrorKept(WriteOf(r))

\* C21 (amended): whenever tr_ioWrite returns an error of one of its per-file
\* steps (not-found, open or create failing, the write failing) the torrent is
\* in the local-error state when the call returns, with the error naming the
\* failing file unless one was set before, which is then left as it was; a
\* write refused with EINVAL for its piece index leaves the error state as it
\* was, set or not.
C21_MarkedOnce ==
    \A r \in FaultCalls(tor) :
        LET w == WriteOf(r)
        IN /\ w.err \notin {"OK", "EINVAL"} =>
                /\ w.tor.error = "TR_STAT_LOCAL_ERROR"
                /\ ErrorKept(w)
                /\ tor.error # "TR_STAT_LOCAL_ERROR" =>
                       \E i \in 1..tor.info.fileCount :
                           w.tor.errorString = w.err \o " (" \o tor.info.files[i].name \o ")"
           /\ w.err \in {"OK", "EINVAL"} =>
                w.tor.error = tor.error /\ w.tor.errorString = tor.errorString

\* a second write has failed on another file and with another error than the
\* first, and the error of the first is the one the torrent shows
C21_Witness ==
    /\ last.op = "write" /\ last.second
    /\ last.err = "EACCES"
    /\ last.errorBefore = "TR_STAT_LOCAL_ERROR"
    /\ tor.error = "TR_STAT_LOCAL_ERROR"
    /\ tor.errorString = "EIO (file0)"
    /\ last.errorStringBefore = tor.errorString

\* C22 (as stated): while the torrent is in the local-error state the error
\* persists and no tr_ioWrite call writes a byte to a file of the torrent or
\* creates one.
C22_AsClaimed ==
    tor.error = "TR_STAT_LOCAL_ERROR" =>
        \A r \in FaultCalls(tor) :
            /\ WriteOf(r).tor.error = "TR_STAT_LOCAL_ERROR"
            /\ SameFiles(disk, WriteOf(r).disk)

\* a write made in the local-error state has succeeded and changed the files
C22_Witness ==
    /\ last.op = "write" /\ last.second
    /\ last.errorBefore = "TR_STAT_LOCAL_ERROR"
    /\ last.err = "OK"
    /\ last.wrote
    /\ tor.error = "TR_STAT_LOCAL_ERROR"

\* what tr_ioPrefetch and tr_ioRead do in the current state with range r
PrefetchOf(r) ==
    tr_ioPrefetch(tor, disk, r.piece, r.begin, r.len)

ReadOf(r) ==
    tr_ioRead(tor, disk, r.piece, r.begin, r.len)

\* the calls of a log
CallsOf(log) ==
    {log[i].call : i \in DOMAIN log}

\* the calls that create a file or transfer bytes of one
Transfers ==
    {"tr_fdFileCheckout:create", "tr_sys_file_read_at", "tr_sys_file_write_at"}

\* the files with a byte in range r, in file order (1-based)
Touched(r) ==
    {i \in 1..tor.info.fileCount :
        InRange(tor, i, tr_pieceOffset(tor, r.piece, r.begin, 0), r.len)}

\* whether file i can be used for reading: a handle of it is cached, or it
\* is on disk and opens
Usable(i) ==
    tr_fdFileGetCached(disk[i], FALSE) \/ (disk[i].exists /\ disk[i].fault # "open")

\* what a read-only pass over range r returns when no transfer fails: EINVAL
\* for a piece past the last, else the error of the first file of the range
\* that cannot be used, else none
FindError(r) ==
    IF r.piece >= tor.info.pieceCount THEN "EINVAL"
    ELSE IF \A i \in Touched(r) : Usable(i) THEN "OK"
    ELSE LET i == CHOOSE k \in Touched(r) :
                      ~Usable(k) /\ \A j \in Touched(r) : j < k => Usable(j)
         IN IF disk[i].exists THEN "EACCES" ELSE "ENOENT"

\* C23 (as stated): whatever fails underneath, tr_ioPrefetch reports no error
\* to its caller, never sets a torrent-local error, and never creates or
\* writes a file.
C23_AsClaimed ==
    \A r \in FaultCalls(tor) :
        /\ PrefetchOf(r).err = "OK"
        /\ PrefetchOf(r).tor = tor
        /\ SameFiles(disk, PrefetchOf(r).disk)

\* C23 (amended): tr_ioPrefetch never sets or changes a torrent-local error,
\* never creates a file and never reads or writes a byte of one, and a failing
\* advise is not reported; but it returns EINVAL for a piece index past the
\* last, ENOENT for the first file of the range that is missing and has no
\* cached handle, and the error of the open for the first that fails to open.
C23_BestEffort ==
    \A r \in FaultCalls(tor) :
        LET p == PrefetchOf(r)
        IN /\ p.tor = tor
           /\ SameFiles(disk, p.disk)
           /\ CallsOf(p.log) \cap Transfers = {}
           /\ p.err = FindError(r)

\* a prefetch has returned ENOENT for a missing file after advising on the
\* file before it, with the files and the error state as they were
C23_Witness ==
    /\ last.op = "prefetch"
    /\ last.err = "ENOENT"
    /\ "tr_sys_file_advise" \in CallsOf(last.log)
    /\ ~last.wrote
    /\ tor.error = "TR_STAT_OK"
    /\ \E i \in 1..tor.info.fileCount : disk[i].fault = "io" /\ disk[i].handle = "ro"

\* the files of range r that a call reaches first while missing on disk and
\* without a cached handle for the mode: every file of the range before them
\* can be used and does not fail
ReachedMissing(r, doWrite) ==
    {i \in Touched(r) :
        /\ ~disk[i].exists
        /\ ~tr_fdFileGetCached(disk[i], doWrite)
        /\ \A j \in Touched(r) : j < i =>
               /\ disk[j].fault = "none"
               /\ disk[j].exists \/ tr_fdFileGetCached(disk[j], doWrite)}

\* the calls a log holds for file i (1-based)
CallsOn(log, i) ==
    {log[k].call : k \in {n \in DOMAIN log : log[n].index = i - 1}}

\* C24: a read that reaches a file which is not on disk and has no cached
\* handle returns ENOENT without calling checkout, without creating the file
\* and without setting a torrent-local error; a write in the same situation
\* calls checkout to create the file, and the file is on disk afterwards with
\* its full length unless the creation itself fails.
C24_NotFound ==
    \A r \in IoCalls(tor) :
        /\ \A i \in ReachedMissing(r, FALSE) :
               LET rd == ReadOf(r)
               IN /\ rd.err = "ENOENT"
                  /\ "tr_torrentFindFile2" \in CallsOn(rd.log, i)
                  /\ CallsOf(rd.log) \cap {"tr_fdFileCheckout:open", "tr_fdFileCheckout:create"}
                         \subseteq UNION {CallsOn(rd.log, j) : j \in 1..(i - 1)}
                  /\ CallsOn(rd.log, i) \cap
                         {"tr_fdFileCheckout:open", "tr_fdFileCheckout:create",
                          "tr_sys_file_read_at"} = {}
                  /\ ~rd.disk[i].exists
                  /\ SameFiles(disk, rd.disk)
                  /\ rd.tor = tor
        /\ \A i \in ReachedMissing(r, TRUE) :
               LET w == WriteOf(r)
               IN /\ "tr_fdFileCheckout:create" \in CallsOn(w.log, i)
                  /\ disk[i].fault # "open" =>
                         /\ w.disk[i].exists
                         /\ Len(w.disk[i].data) = tor.info.files[i].length
                  /\ disk[i].fault = "open" => w.err = "EACCES" /\ ~w.disk[i].exists

\* a read has returned ENOENT at a missing file after reading the file before
\* it, and nothing was created or marked
C24_Witness ==
    /\ last.op = "read" /\ ~last.second
    /\ last.err = "ENOENT"
    /\ "tr_sys_file_read_at" \in CallsOf(last.log)
    /\ \E i \in 1..tor.info.fileCount :
           /\ ~disk[i].exists
           /\ "tr_torrentFindFile2" \in CallsOn(last.log, i)
    /\ ~last.wrote
    /\ tor.error = "TR_STAT_OK"

\* a write has created a file that was missing
C24_Created ==
    /\ last.op = "write" /\ ~last.second
    /\ last.err = "OK"
    /\ "tr_fdFileCheckout:create" \in CallsOf(last.log)
    /\ last.wrote

\* the ranges of pieces past the last: any piece index from pieceCount on
PastLast ==
    [piece : {tor.info.pieceCount, tor.info.pieceCount + 1}, begin : {0, 1}, len : {0, 1, 2}]

\* C25: tr_ioRead, tr_ioWrite and tr_ioPrefetch called with a piece index >=
\* pieceCount return EINVAL without locating a file, looking up or opening a
\* handle, transferring a byte, or changing the torrent's error state; and
\* they return EINVAL for no piece index below pieceCount.
C25_InvalidRange ==
    /\ \A r \in PastLast :
       \A res \in {ReadOf(r), PrefetchOf(r), WriteOf(r)} :
           /\ res.err = "EINVAL"
           /\ res.log = <<>>
           /\ res.disk = disk
           /\ res.tor = tor
    /\ \A r \in IoCalls(tor) :
       \A res \in {ReadOf(r), PrefetchOf(r), WriteOf(r)} :
           /\ res.err # "EINVAL"
           /\ res.log # <<>>

\* a write past the last piece has returned EINVAL in the local-error state
\* a failed write before it had set, and made no call
C25_Witness ==
    /\ last.op = "write" /\ last.second
    /\ last.piece = tor.info.pieceCount
    /\ last.err = "EINVAL"
    /\ last.log = <<>>
    /\ ~last.wrote
    /\ last.errorBefore = "TR_STAT_LOCAL_ERROR"
    /\ tor.error = "TR_STAT_LOCAL_ERROR"
    /\ tor.errorString = last.errorStringBefore

\* the zero-length files a call with range r passes: they lie between two
\* files of the range, and every file of the range before them can be used
\* in the mode and does not fail
PassedEmpty(r, doWrite) ==
    {z \in 1..tor.info.fileCount :
        /\ tor.info.files[z].length = 0
        /\ \E i, k \in Touched(r) : i < z /\ z < k
        /\ \A j \in Touched(r) : j < z =>
               /\ disk[j].fault = "none"
               /\ doWrite \/ disk[j].exists \/ tr_fdFileGetCached(disk[j], doWrite)}

\* the bytes handed to the per-file steps of a log before its n-th entry
RECURSIVE BytesBefore(_, _)
BytesBefore(log, n) ==
    IF n <= 1 THEN 0
    ELSE BytesBefore(log, n - 1)
         + (IF log[n - 1].call = "readOrWriteBytes" THEN log[n - 1].len ELSE 0)

\* C26: a zero-length file inside a piece range contributes no work and
\* cannot error.  The per-file step for it is given no byte, makes no handle
\* lookup, no open or create and no read, write or advise, whether the file
\* is on disk or not and whatever would fail on it; the file is left as it
\* was, and the step after it is for the next file, from its start, with the
\* byte count that remained before the zero-length file.
C26_EmptyFile ==
    \A r \in IoCalls(tor) :
    \A mode \in {TR_IO_READ, TR_IO_PREFETCH, TR_IO_WRITE} :
    \A z \in PassedEmpty(r, mode = TR_IO_WRITE) :
        LET res == readOrWritePiece(tor, disk, mode, r.piece, r.begin,
                                    TruePayload(tor, r), r.len)
            log == res.log
            at == {n \in DOMAIN log : log[n].index = z - 1}
        IN /\ Cardinality(at) = 1
           /\ \A n \in at :
                  /\ log[n] = Called("readOrWriteBytes", z - 1, 0, 0)
                  /\ n < Len(log)
                  /\ log[n + 1].call = "readOrWriteBytes"
                  /\ log[n + 1].index = z
                  /\ log[n + 1].offset = 0
                  /\ log[n + 1].len = Min(r.len - BytesBefore(log, n),
                                          tor.info.files[z + 1].length)
                  /\ BytesBefore(log, n) > 0
                  /\ BytesBefore(log, n + 1) = BytesBefore(log, n)
           /\ res.disk[z] = disk[z]
           /\ (\A j \in Touched(r) :
                  /\ disk[j].fault = "none"
                  /\ mode = TR_IO_WRITE \/ disk[j].exists
                         \/ tr_fdFileGetCached(disk[j], FALSE))
                  => res.err = "OK"

\* a write has passed a zero-length file that is not on disk and cannot be
\* created, and has succeeded on the files before and after it
C26_Witness ==
    /\ last.op = "write" /\ ~last.second
    /\ last.err = "OK"
    /\ last.wrote
    /\ \E z \in 1..tor.info.fileCount :
           /\ tor.info.files[z].length = 0
           /\ ~disk[z].exists /\ disk[z].fault = "open"
           /\ Called("readOrWriteBytes", z - 1, 0, 0) \in {last.log[n] : n \in DOMAIN last.log}
           /\ "tr_sys_file_write_at" \in CallsOn(last.log, z - 1)
           /\ "tr_sys_file_write_at" \in CallsOn(last.log, z + 1)

\* what tr_ioTestPiece does in the current state for a piece
VerifyOf(piece) ==
    tr_ioTestPiece(tor, disk, piece)

\* whether the cache holds block b pending
Pending(b) ==
    \E cb \in tor.cache : cb.piece = b.piece /\ cb.offset = b.begin

\* the blocks of a piece whose read from the block cache fails: they are not
\* pending, and the read of their range from the files fails
FailingBlocks(piece) ==
    {b \in Blocks(tor) : b.piece = piece /\ ~Pending(b) /\ ReadOf(b).err # "OK"}

\* the block reads of a log, as blocks
BlockReads(log) ==
    {[piece |-> log[n].index, begin |-> log[n].offset, len |-> log[n].len] :
        n \in {k \in DOMAIN log : log[k].call = "tr_cacheReadBlock"}}

\* C27: if a block read from the block cache fails during tr_ioTestPiece, it
\* returns false, reads no block after the failing one, hands no digest out
\* (the hash context is released with no output) and makes no comparison with
\* the stored digest; if none fails, every block of the piece is read once,
\* the digest is produced and compared.
C27_ReadFailure ==
    \A piece \in 0..(tor.info.pieceCount - 1) :
        LET v == VerifyOf(piece)
            mine == {b \in Blocks(tor) : b.piece = piece}
            failing == FailingBlocks(piece)
        IN /\ failing # {} =>
                LET first == CHOOSE b \in failing : \A c \in failing : b.begin <= c.begin
                IN /\ ~v.ret
                   /\ BlockReads(v.log) = {b \in mine : b.begin <= first.begin}
                   /\ Cardinality({n \in DOMAIN v.log : v.log[n].call = "tr_cacheReadBlock"})
                          = Cardinality({b \in mine : b.begin <= first.begin})
                   /\ v.log[Len(v.log)].call = "tr_sha1_final:nullptr"
                   /\ CallsOf(v.log) \cap {"tr_sha1_final:setme", "memcmp"} = {}
           /\ failing = {} =>
                /\ BlockReads(v.log) = mine
                /\ "tr_sha1_final:setme" \in CallsOf(v.log)
                /\ v.log[Len(v.log)].call = "memcmp"

\* a verify has read its first block, failed on the second, and stopped
C27_Witness ==
    /\ last.op = "verify"
    /\ ~last.ret
    /\ Cardinality(BlockReads(last.log)) = 2
    /\ Cardinality({b \in Blocks(tor) : b.piece = last.piece}) = 3
    /\ "tr_sys_file_read_at" \in CallsOf(last.log)
    /\ last.log[Len(last.log)].call = "tr_sha1_final:nullptr"
    /\ "memcmp" \notin CallsOf(last.log)

\* the bytes of a piece from offset `begin' on as the block cache shows them:
\* a block that is pending as the cache holds it, any other as the files hold it
RECURSIVE CacheView(_, _)
CacheView(piece, begin) ==
    IF begin >= tr_torPieceCountBytes(tor, piece) THEN <<>>
    ELSE LET len == Min(tor.blockSize, tr_torPieceCountBytes(tor, piece) - begin)
             b == [piece |-> piece, begin |-> begin, len |-> len]
             held == {cb \in tor.cache : cb.piece = piece /\ cb.offset = begin}
         IN (IF held # {} THEN (CHOOSE cb \in held : TRUE).data ELSE ReadOf(b).buf)
            \o CacheView(piece, begin + len)

\* C28: tr_ioTestPiece obtains every byte it hashes through tr_cacheReadBlock:
\* a read of the files is made only inside a block read that found nothing
\* pending, and the piece passes exactly when the bytes as the cache shows
\* them, pending writes included, have the stored digest; it writes no byte,
\* creates no file and leaves the torrent and its error state as they were.
C28_ThroughCache ==
    \A piece \in 0..(tor.info.pieceCount - 1) :
        LET v == VerifyOf(piece)
            log == v.log
        IN /\ \A n \in DOMAIN log :
                  /\ log[n].call = "tr_ioRead" =>
                         /\ n > 1
                         /\ log[n - 1] = [log[n] EXCEPT !.call = "tr_cacheReadBlock"]
                         /\ ~Pending([piece |-> piece, begin |-> log[n].offset,
                                      len |-> log[n].len])
                  /\ log[n].call = "tr_sys_file_read_at" =>
                         \E k \in 1..(n - 1) : log[k].call = "tr_ioRead"
                  /\ log[n].call = "tr_cacheReadBlock" /\ n < Len(log)
                     /\ Pending([piece |-> piece, begin |-> log[n].offset, len |-> log[n].len])
                         => log[n + 1].call # "tr_ioRead"
           /\ FailingBlocks(piece) = {} =>
                  v.ret = (tr_sha1_final(CacheView(piece, 0)) = tor.info.pieces[piece + 1].hash)
           /\ v.tor = tor
           /\ SameFiles(disk, v.disk)
           /\ CallsOf(log) \cap {"tr_sys_file_write_at", "tr_fdFileCheckout:create"} = {}

\* a piece has passed on blocks the cache holds pending while a file of the
\* piece is not on disk, with no read of the files
C28_Witness ==
    /\ last.op = "verify"
    /\ last.ret
    /\ \E cb \in tor.cache : cb.piece = last.piece
    /\ \E i \in 1..tor.info.fileCount :
           /\ InRange(tor, i, tr_pieceOffset(tor, last.piece, 0, 0), last.len)
           /\ ~disk[i].exists
    /\ "tr_ioRead" \notin CallsOf(last.log)
    /\ ~last.wrote
    /\ tor.error = "TR_STAT_OK"

\* a piece has passed on one pending block and one block read from the files
C28_Mixed ==
    /\ last.op = "verify"
    /\ last.ret
    /\ \E cb \in tor.cache : cb.piece = last.piece
    /\ "tr_ioRead" \in CallsOf(last.log)

(***************************************************************************)
(* Serving metadata pieces: tr_torrentGetMetadataPiece                      *)
(***************************************************************************)
\* A size_t is kept as q * METADATA_PIECE_SIZE + r with 0 <= r <
\* METADATA_PIECE_SIZE, modulo 2^64: a negative q stands for the value
\* 2^64 + q * METADATA_PIECE_SIZE + r.  No value met here has a q beyond
\* +-2^31, so the only wrap that can occur is the one through 0.
SizeT(q, r) ==
    [q |-> q, r |-> r]

SizeOf(n) ==
    SizeT(n \div METADATA_PIECE_SIZE, n % METADATA_PIECE_SIZE)

SizeAdd(a, b) ==
    SizeT(a.q + b.q + (a.r + b.r) \div METADATA_PIECE_SIZE,
          (a.r + b.r) % METADATA_PIECE_SIZE)

SizeSub(a, b) ==
    IF a.r >= b.r THEN SizeT(a.q - b.q, a.r - b.r)
    ELSE SizeT(a.q - b.q - 1, a.r - b.r + METADATA_PIECE_SIZE)

\* a <= b, unsigned
SizeLeq(a, b) ==
    IF (a.q < 0) = (b.q < 0)
    THEN a.q < b.q \/ (a.q = b.q /\ a.r <= b.r)
    ELSE b.q < 0

\* the number of pieces whose byte count is 2^32: the product of a piece index
\* and METADATA_PIECE_SIZE leaves the int range from half of it on
IntWrapPieces ==
    262144

\* what the build makes of the overflowing int product, which the language
\* leaves undefined: the low 32 bits as a signed int, or the exact product
\* in the 64-bit register that holds the size_t
Builds ==
    {"wraps", "widens"}

\* a slip: the product is the exact one in every build
PieceProduct_Exact(piece, build) ==
    SizeT(piece, 0)

\* size_t const o = piece * METADATA_PIECE_SIZE; an int product converted
PieceProduct(piece, build) ==
    IF piece < IntWrapPieces \div 2 \/ build = "widens" THEN SizeT(piece, 0)
    ELSE LET low == piece % IntWrapPieces
         IN SizeT(IF low < IntWrapPieces \div 2 THEN low ELSE low - IntWrapPieces, 0)

\* o + METADATA_PIECE_SIZE <= tor->infoDictLength ? METADATA_PIECE_SIZE : tor->infoDictLength - o
PieceSpan(o, infoDictLength) ==
    IF SizeLeq(SizeAdd(o, SizeT(1, 0)), SizeOf(infoDictLength))
    THEN SizeT(1, 0)
    ELSE SizeSub(SizeOf(infoDictLength), o)

\* 0 < l && l <= METADATA_PIECE_SIZE
SpanValid(l) ==
    (l.q = 0 /\ l.r > 0) \/ l = SizeT(1, 0)

\* static size_t findInfoDictOffset(tor): where the bencoded info dictionary
\* lies in the container; 0 when the file does not load or does not hold it
findInfoDictOffset(dk) ==
    IF dk.opens /\ dk.infoAt >= 0 THEN dk.infoAt ELSE 0

\* static void ensureInfoDictOffsetIsCached(tor)
ensureInfoDictOffsetIsCached(t, dk) ==
    IF t.infoDictOffsetIsCached THEN t
    ELSE [t EXCEPT !.infoDictOffset = findInfoDictOffset(dk),
                   !.infoDictOffsetIsCached = TRUE]

\* tr_sys_file_seek(fd, offset, TR_SEEK_SET, ...): the offset is an int64_t, and
\* a negative one is refused; one past the end of the file is not
tr_sys_file_seek(pos) ==
    pos.q >= 0

\* tr_sys_file_read(fd, buf, l, &n, ...) && n == l: the l bytes from pos on are
\* in the file
tr_sys_file_read(dk, pos, l) ==
    /\ pos.q <= dk.length \div METADATA_PIECE_SIZE
    /\ pos.q * METADATA_PIECE_SIZE + pos.r + l <= dk.length

\* void* tr_torrentGetMetadataPiece(tor, piece, len): `ret' is NULL, or the
\* length *len and the place in the container the returned bytes were read from
tr_torrentGetMetadataPiece(t, dk, piece, build) ==
    IF ~tr_torrentHasMetadata(t) THEN [tor |-> t, ret |-> NULL]
    ELSE LET t1 == ensureInfoDictOffsetIsCached(t, dk)
             o == PieceProduct(piece, build)
             pos == SizeAdd(SizeOf(t1.infoDictOffset), o)
             l == PieceSpan(o, t1.infoDictLength)
             len == l.q * METADATA_PIECE_SIZE + l.r
         IN IF /\ dk.opens
               /\ tr_sys_file_seek(pos)
               /\ SpanValid(l)
               /\ tr_sys_file_read(dk, pos, len)
            THEN [tor |-> t1,
                  ret |-> [len |-> len, from |-> pos.q * METADATA_PIECE_SIZE + pos.r]]
            ELSE [tor |-> t1, ret |-> NULL]

\* the lengths of the info dictionaries served
ServedLengths ==
    {1, METADATA_PIECE_SIZE - 1, METADATA_PIECE_SIZE, METADATA_PIECE_SIZE + 1,
     2 * METADATA_PIECE_SIZE, TrueSize}

\* where the info dictionary lies in its container
ServedOffsets ==
    {7, METADATA_PIECE_SIZE + 100}

\* the piece indexes asked for: the first ones, and those around the piece
\* counts at which the int product turns negative and returns to zero, up to
\* the last such counts an int holds
AskedPieces ==
    0..(MaxPieces + 1)
    \cup {IntWrapPieces \div 2 - 1, IntWrapPieces \div 2, IntWrapPieces - 1}
    \cup (IntWrapPieces..(IntWrapPieces + MaxPieces))
    \cup {INT_MAX - 2 * IntWrapPieces + 1, INT_MAX - IntWrapPieces}

\* a torrent with metadata whose info dictionary is `length' bytes long
ServedTorrent(length, offset, cached) ==
    [FullTorrent([bytes |-> Bytes(length, "good"), isBenc |-> TRUE, metainfoOk |-> TRUE,
                  pieceSize |-> 2 * MAX_BLOCK_SIZE, fileCount |-> 1])
        EXCEPT !.infoDictOffset = IF cached THEN offset ELSE 0,
               !.infoDictOffsetIsCached = cached]

\* its container: whether it opens, where the info dictionary is found in it
\* (-1: the search does not find it), and how long the file is
Container(length, offset, state) ==
    [torrent |-> "full", resume |-> TRUE,
     opens |-> state # "unreadable",
     infoAt |-> IF state = "unmatched" THEN 0 - 1 ELSE offset,
     length |-> IF state = "truncated" THEN offset + length - 1 ELSE offset + length + 1]

InitPieces ==
    /\ \/ \E length \in ServedLengths, offset \in ServedOffsets, cached \in BOOLEAN,
             state \in {"whole", "unreadable", "truncated", "unmatched"} :
              /\ tor = ServedTorrent(length, offset, cached)
              /\ disk = Container(length, offset, state)
       \/ /\ \E d \in UsableInfoDicts : tor = MagnetTorrent(d, FALSE)
          /\ disk = Container(0, 0, "whole")
    /\ infoDict = NULL
    /\ clock = 0
    /\ peers = NULL
    /\ last = [op |-> "none", piece |-> 0, build |-> "none", ret |-> NULL]
    /\ hist = NoHistory(-1)
    /\ returns = <<>>

\* a peer asks for a metadata piece
GetMetadataPiece(piece, build) ==
    LET g == tr_torrentGetMetadataPiece(tor, disk, piece, build)
    IN /\ tor' = g.tor
       /\ last' = [op |-> "get", piece |-> piece, build |-> build, ret |-> g.ret]
       /\ UNCHANGED <<disk, infoDict, clock, peers, hist, returns>>

NextPieces ==
    \E piece \in AskedPieces, build \in Builds : GetMetadataPiece(piece, build)

SpecPieces == InitPieces /\ [][NextPieces]_vars

(***************************************************************************)
(* Claims about serving metadata pieces                                    *)
(***************************************************************************)
\* the number of pieces of the torrent's info dictionary
ServedCount ==
    (tor.infoDictLength + METADATA_PIECE_SIZE - 1) \div METADATA_PIECE_SIZE

\* whether the container opens and holds the whole info dictionary at the
\* offset the torrent has for it after the call
Readable(g) ==
    disk.opens /\ g.tor.infoDictOffset + tor.infoDictLength <= disk.length

\* what the claim says of a call for `piece' that ended as g
AsServed(piece, g) ==
    IF ~tr_torrentHasMetadata(tor) THEN g.ret = NULL
    ELSE IF piece >= ServedCount THEN g.ret = NULL
    ELSE Readable(g) =>
             g.ret = [len |-> Min(METADATA_PIECE_SIZE,
                                  tor.infoDictLength - piece * METADATA_PIECE_SIZE),
                      from |-> g.tor.infoDictOffset + piece * METADATA_PIECE_SIZE]

\* C29 (as stated): for a torrent with metadata and info-dictionary length L,
\* tr_torrentGetMetadataPiece(i) returns min(16384, L - i * 16384) bytes read
\* at container offset infoDictOffset + i * 16384 for every i below
\* ceil(L / 16384), and nothing for every i from ceil(L / 16384) on and for a
\* torrent without metadata, whatever the build makes of the int product.
C29_AsClaimed ==
    \A piece \in AskedPieces, build \in Builds :
        AsServed(piece, tr_torrentGetMetadataPiece(tor, disk, piece, build))

\* C29, where the int product does not overflow (i < 2^17) or the build
\* computes it exactly: the statement holds.
C29_NoOverflow ==
    \A piece \in AskedPieces, build \in Builds :
        piece < IntWrapPieces \div 2 \/ build = "widens" =>
            AsServed(piece, tr_torrentGetMetadataPiece(tor, disk, piece, build))

\* a call for piece 2^18 of a torrent with fewer pieces has returned the
\* bytes of piece 0
C29_Witness ==
    /\ last.op = "get"
    /\ last.build = "wraps"
    /\ last.piece = IntWrapPieces
    /\ last.piece >= ServedCount
    /\ tr_torrentHasMetadata(tor)
    /\ last.ret = [len |-> Min(METADATA_PIECE_SIZE, tor.infoDictLength),
                   from |-> tor.infoDictOffset]

\* a call for piece 2^18 - 1 has returned 16384 bytes of the container from
\* before the info dictionary
C29_Before ==
    /\ last.op = "get"
    /\ last.piece = IntWrapPieces - 1
    /\ last.ret # NULL
    /\ last.ret.from < tor.infoDictOffset

(***************************************************************************)
(* The magnet link of a torrent: tr_torrentInfoGetMagnetLink                *)
(* Texts are sequences of one-character strings.                            *)
(***************************************************************************)
\* the characters a name or a URL is made of here: letters, a digit, marks
\* that need no escape, and others: space, tab and the delimiters of a URI
Unreserved ==
    {"a", "b", "r", "t", "T", "1", "-", ".", "_", "~"}

Whitespace ==
    {" ", "\t"}

Alphabet ==
    Unreserved \cup Whitespace \cup {"/", ":", "&", "=", "%", "?", "#", "+"}

\* the code of a character of the alphabet
CharCode(c) ==
    CASE c = "a" -> 97 [] c = "b" -> 98 [] c = "r" -> 114 [] c = "t" -> 116
      [] c = "T" -> 84 [] c = "1" -> 49
      [] c = "-" -> 45 [] c = "." -> 46 [] c = "_" -> 95 [] c = "~" -> 126
      [] c = " " -> 32 [] c = "\t" -> 9 [] c = "/" -> 47 [] c = ":" -> 58
      [] c = "&" -> 38 [] c = "=" -> 61 [] c = "%" -> 37 [] c = "?" -> 63
      [] c = "#" -> 35 [] c = "+" -> 43

HexDigits ==
    <<"0", "1", "2", "3", "4", "5", "6", "7", "8", "9", "A", "B", "C", "D", "E", "F">>

\* tr_http_escape(out, str, TR_BAD_SIZE, true): str is appended to out, every
\* character but the unreserved ones as % and its code in two hex digits
RECURSIVE tr_http_escape(_, _)
tr_http_escape(out, str) ==
    IF str = <<>> THEN out
    ELSE LET c == Head(str)
         IN tr_http_escape(
                out \o (IF c \in Unreserved THEN <<c>>
                        ELSE <<"%", HexDigits[(CharCode(c) \div 16) + 1],
                               HexDigits[(CharCode(c) % 16) + 1]>>),
                Tail(str))

\* tr_str_is_empty(str): str is null or ""; a null name is kept as the empty one
tr_str_is_empty(str) ==
    str = <<>>

\* "magnet:?xt=urn:btih:"
MagnetPrefix ==
    <<"m", "a", "g", "n", "e", "t", ":", "?", "x", "t", "=",
      "u", "r", "n", ":", "b", "t", "i", "h", ":">>

\* "&dn=", "&tr=", "&ws="
Param(key) ==
    <<"&">> \o key \o <<"=">>

\* a slip: the name is emitted whether it is empty or not
NameParam_Always(s, name) ==
    tr_http_escape(s \o Param(<<"d", "n">>), name)

\* if (!tr_str_is_empty(name)) { "&dn=" ; tr_http_escape(s, name, ...) }
NameParam(s, name) ==
    IF ~tr_str_is_empty(name)
    THEN tr_http_escape(s \o Param(<<"d", "n">>), name)
    ELSE s

\* for (unsigned int i = 0; i < count; ++i) { "&tr=" or "&ws="; tr_http_escape(s, url, ...) }
RECURSIVE ParamLoop(_, _, _, _)
ParamLoop(s, key, urls, i) ==
    IF i >= Len(urls) THEN s
    ELSE ParamLoop(tr_http_escape(s \o Param(key), urls[i + 1]), key, urls, i + 1)

\* char* tr_torrentInfoGetMagnetLink(tr_info const* inf)
tr_torrentInfoGetMagnetLink(inf) ==
    LET s0 == MagnetPrefix \o inf.hashString
        s1 == NameParam(s0, inf.name)
        s2 == ParamLoop(s1, <<"t", "r">>, inf.trackers, 0)
        s3 == ParamLoop(s2, <<"w", "s">>, inf.webseeds, 0)
    IN s3

\* the hex texts of the infohashes considered: 40 hex digits
HashStrings ==
    {[i \in 1..40 |-> "a"], [i \in 1..40 |-> IF i % 2 = 0 THEN "0" ELSE "f"]}

\* the names considered: none, one character of any kind, and some longer ones
LinkNames ==
    {<<>>} \cup {<<c>> : c \in Alphabet}
    \cup {<<"a", " ", "b">>, <<"&", "t", "r", "=">>, <<"%", "1", "1">>, <<"T", "\t">>}

\* the announce and web seed URLs considered; a tr_info holds no empty one
LinkUrls ==
    {<<"a", ":", "/", "/", "T", "/", "a">>, <<"b", "?", "a", "=", "1", "&", "b">>,
     <<"1", " ", "#">>}

\* lists of up to two URLs
UrlLists ==
    {<<>>} \cup {<<u>> : u \in LinkUrls} \cup {<<u, v>> : u \in LinkUrls, v \in LinkUrls}

InitLink ==
    /\ \E h \in HashStrings, name \in LinkNames, trackers \in UrlLists, webseeds \in UrlLists :
           tor = [info |-> [hashString |-> h, name |-> name,
                            trackers |-> trackers, webseeds |-> webseeds]]
    /\ disk = NULL
    /\ infoDict = NULL
    /\ clock = 0
    /\ peers = NULL
    /\ last = [op |-> "none", link |-> <<>>]
    /\ hist = NoHistory(-1)
    /\ returns = <<>>

\* the link of the torrent is asked for
GetMagnetLink ==
    /\ last' = [op |-> "link", link |-> tr_torrentInfoGetMagnetLink(tor.info)]
    /\ UNCHANGED <<tor, disk, infoDict, clock, peers, hist, returns>>

NextLink ==
    GetMagnetLink

SpecLink == InitLink /\ [][NextLink]_vars

(***************************************************************************)
(* Claims about the magnet link                                            *)
(***************************************************************************)
\* the pieces of a text between the occurrences of sep
Split(text, sep) ==
    LET seps == {k \in 1..Len(text) : text[k] = sep}
        n == Cardinality(seps)
        at(i) == IF i = 0 THEN 0
                 ELSE IF i = n + 1 THEN Len(text) + 1
                 ELSE CHOOSE k \in seps : Cardinality({j \in seps : j < k}) = i - 1
    IN [i \in 1..(n + 1) |-> SubSeq(text, at(i - 1) + 1, at(i) - 1)]

\* whether a text is percent-escaped: unreserved characters and % with two
\* hex digits, nothing else
RECURSIVE IsEscaped(_)
IsEscaped(text) ==
    IF text = <<>> THEN TRUE
    ELSE IF Head(text) = "%"
    THEN /\ Len(text) >= 3
         /\ \E i, j \in 1..16 : HexDigits[i] = text[2] /\ HexDigits[j] = text[3]
         /\ IsEscaped(SubSeq(text, 4, Len(text)))
    ELSE Head(text) \in Unreserved /\ IsEscaped(Tail(text))

\* the text an escaped text stands for
RECURSIVE Unescape(_)
Unescape(text) ==
    IF text = <<>> THEN <<>>
    ELSE IF Head(text) = "%"
    THEN LET hi == CHOOSE i \in 0..15 : HexDigits[i + 1] = text[2]
             lo == CHOOSE j \in 0..15 : HexDigits[j + 1] = text[3]
         IN <<CHOOSE c \in Alphabet : CharCode(c) = 16 * hi + lo>>
            \o Unescape(SubSeq(text, 4, Len(text)))
    ELSE <<Head(text)>> \o Unescape(Tail(text))

\* whether a parameter is key=value with a non-empty escaped value that
\* stands for the text given
IsParam(param, key, value) ==
    /\ Len(param) > 3
    /\ SubSeq(param, 1, 3) = key \o <<"=">>
    /\ IsEscaped(SubSeq(param, 4, Len(param)))
    /\ Unescape(SubSeq(param, 4, Len(param))) = value

C30_Bare ==
    /\ last.op = "link"
    /\ last.link = MagnetPrefix \o tor.info.hashString

(***************************************************************************)
(* Claims about what a request leaves alone                                *)
(***************************************************************************)
\* the clock readings a request is tried with: before, at and after every
\* reading at which a head stamped by the specification becomes due
RequestTimes ==
    0..(MaxTime + MIN_REPEAT_INTERVAL_SECS + 1)

\* the torrent without its needed list
FrameOf(t) ==
    IF t.incompleteMetadata = NULL THEN t
    ELSE [t EXCEPT !.incompleteMetadata.piecesNeeded = <<>>]

\* C31: a next_request that returns a piece returns the head's piece, moves
\* the head entry to the tail with last_requested_at = now and changes nothing
\* else: the set of pieces in the needed list, its length, the order and the
\* stamps of the other entries, the buffer, its size and the piece count stay;
\* a next_request that returns none changes nothing at all.
C31_Frame ==
    \A now \in RequestTimes :
        LET r == tr_torrentGetNextMetadataRequest(tor, now)
            old == NeededOf(tor)
            new == NeededOf(r.tor)
            n == Len(old)
        IN IF r.ret
           THEN /\ n > 0
                /\ r.piece = old[1].piece
                /\ Len(new) = n
                /\ new[n] = [piece |-> old[1].piece, requestedAt |-> now]
                /\ \A i \in 1..(n - 1) : new[i] = old[i + 1]
                /\ PiecesOf(new) = PiecesOf(old)
                /\ r.tor.incompleteMetadata.metadata = tor.incompleteMetadata.metadata
                /\ r.tor.incompleteMetadata.metadata_size = tor.incompleteMetadata.metadata_size
                /\ r.tor.incompleteMetadata.pieceCount = tor.incompleteMetadata.pieceCount
                /\ FrameOf(r.tor) = FrameOf(tor)
           ELSE /\ r.tor = tor
                /\ r.piece = -1

\* a request has just returned a piece of a list of three whose other entries
\* carry different stamps; the next request returns none at the reading that
\* ends the new head's interval, and a piece at the present reading
C31_Witness ==
    /\ last.op = "request"
    /\ last.outcome = "piece"
    /\ Len(NeededOf(tor)) = 3
    /\ NeededOf(tor)[3].requestedAt = clock
    /\ NeededOf(tor)[1].requestedAt # NeededOf(tor)[2].requestedAt
    /\ NeededOf(tor)[2].requestedAt > 0
    /\ ~tr_torrentGetNextMetadataRequest(tor, NeededOf(tor)[1].requestedAt + MIN_REPEAT_INTERVAL_SECS).ret
    /\ tr_torrentGetNextMetadataRequest(tor, clock).ret

(***************************************************************************)
(* Claims about the walk of a range over the files                         *)
(***************************************************************************)
\* the per-file steps of a log, in order
FileSteps(log) ==
    SelectSeq(log, LAMBDA c : c.call = "readOrWriteBytes")

\* the bytes handed to the first n of a sequence of steps
RECURSIVE Handed(_, _)
Handed(steps, n) ==
    IF n = 0 THEN 0 ELSE Handed(steps, n - 1) + steps[n].len

\* C32: for a valid range (piece < piece_count, piece*piece_size + begin +
\* length <= total_size, length > 0) in which no per-file step fails, the
\* per-file steps visit consecutive files starting at locate(piece, begin),
\* use file offset 0 for every file after the first, are given
\* min(remaining, file.length - file_offset) bytes each, which sum to exactly
\* length, never index a file at or beyond file_count, and the loop ends
\* (after at most file_count steps).
C32_Walk ==
    \A r \in IoRanges(tor) :
    \A mode \in {TR_IO_READ, TR_IO_PREFETCH, TR_IO_WRITE} :
        LET res == readOrWritePiece(tor, disk, mode, r.piece, r.begin,
                                    TruePayload(tor, r), r.len)
            steps == FileSteps(res.log)
            loc == tr_ioFindFileLocation(tor, r.piece, r.begin)
        IN /\ res.err # "out-of-bounds"
           /\ res.err = "OK" =>
                /\ Len(steps) >= 1
                /\ Len(steps) <= tor.info.fileCount
                /\ steps[1].index = loc.fileIndex
                /\ steps[1].offset = loc.fileOffset
                /\ \A n \in 2..Len(steps) :
                       /\ steps[n].index = steps[n - 1].index + 1
                       /\ steps[n].offset = 0
                /\ \A n \in 1..Len(steps) :
                       /\ 0 <= steps[n].index
                       /\ steps[n].index < tor.info.fileCount
                       /\ steps[n].len = Min(r.len - Handed(steps, n - 1),
                                             tor.info.files[steps[n].index + 1].length
                                                 - steps[n].offset)
                /\ Handed(steps, Len(steps)) = r.len

\* a range has been written that starts inside the first of three files,
\* passes a file without bytes and ends in the third: three steps, the first
\* from a nonzero offset, the second for no byte
C32_Witness ==
    /\ last.op = "write"
    /\ last.err = "OK"
    /\ LET steps == FileSteps(tr_ioRead(tor, disk, last.piece, last.begin, last.len).log)
       IN /\ Len(steps) = 3
          /\ steps[1].offset > 0
          /\ steps[2].len = 0
          /\ steps[3].len > 0
          /\ steps[3].index = 2

(***************************************************************************)
(* Claims about a step that fails in the middle of a range                 *)
(***************************************************************************)
\* the part of range r that lies in file i (1-based): offset in the file and
\* number of bytes
PartOf(r, i) ==
    LET g == tr_pieceOffset(tor, r.piece, r.begin, 0)
        file == tor.info.files[i]
        from == IF g > file.offset THEN g ELSE file.offset
        to == Min(g + r.len, file.offset + file.length)
    IN [offset |-> from - file.offset, len |-> to - from, at |-> from - g]

\* the per-file step of range r on file i alone, in the current state
StepOf(r, mode, i) ==
    LET part == PartOf(r, i)
    IN readOrWriteBytes(tor, disk, mode, i - 1, part.offset,
                        SubSeq(TruePayload(tor, r), part.at + 1, part.at + part.len),
                        part.len)

\* the files of range r whose step fails
FailingFiles(r, mode) ==
    {i \in Touched(r) : StepOf(r, mode, i).err # "OK"}

\* C33: when a per-file read or write step of a range fails, the call returns
\* that step's error code, makes no call for any later file of the range and
\* leaves every later file as it was; the files before the failing one are as
\* their own steps left them: what a write stored in them stays stored.
C33_StepFailure ==
    \A r \in IoCalls(tor) :
    \A mode \in {TR_IO_READ, TR_IO_WRITE} :
        LET res == readOrWritePiece(tor, disk, mode, r.piece, r.begin,
                                    TruePayload(tor, r), r.len)
            failing == FailingFiles(r, mode)
        IN IF failing = {}
           THEN res.err = "OK"
           ELSE LET first == CHOOSE i \in failing : \A j \in failing : i <= j
                IN /\ res.err = StepOf(r, mode, first).err
                   /\ res.err \in {"ENOENT", "EACCES", "EIO"}
                   /\ \A n \in DOMAIN res.log :
                          res.log[n].call # "tr_ioFindFileLocation"
                              => res.log[n].index <= first - 1
                   /\ \A j \in 1..tor.info.fileCount :
                          /\ j > first => res.disk[j] = disk[j]
                          /\ j <= first /\ j \in Touched(r)
                                 => res.disk[j] = StepOf(r, mode, j).disk[j]
                          /\ j < first /\ j \in Touched(r) /\ mode = TR_IO_WRITE
                                 => /\ res.disk[j].exists
                                    /\ ReadAt(res.disk[j].data, PartOf(r, j).offset,
                                              PartOf(r, j).len)
                                           = SubSeq(TruePayload(tor, r), PartOf(r, j).at + 1,
                                                    PartOf(r, j).at + PartOf(r, j).len)

\* a write over three files has failed on the third with the error of its
\* write_at, after it stored its bytes in the first
C33_Witness ==
    /\ last.op = "write" /\ ~last.second
    /\ last.err = "EIO"
    /\ last.wrote
    /\ tor.info.fileCount = 3
    /\ "tr_sys_file_write_at" \in CallsOn(last.log, 1)
    /\ "tr_sys_file_write_at" \in CallsOn(last.log, 3)
    /\ disk[1].data = TrueBytes(0, tor.info.files[1].length)
    /\ disk[3].fault = "io"

\* a read over two files has failed on the first, and made no call for the
\* second
C33_Stopped ==
    /\ last.op = "read" /\ ~last.second
    /\ last.err = "EACCES"
    /\ tor.info.fileCount = 2
    /\ last.len = 4
    /\ CallsOn(last.log, 1) # {}
    /\ CallsOn(last.log, 2) = {}

(***************************************************************************)
(* Claims about the block reads of the verifier                            *)
(***************************************************************************)
\* the length of a piece: the last one holds what is left of the total size
PieceLength(piece) ==
    IF piece = tor.info.pieceCount - 1
    THEN tor.info.totalSize - piece * tor.info.pieceSize
    ELSE tor.info.pieceSize

\* the block reads of a log, in order
BlockSteps(log) ==
    SelectSeq(log, LAMBDA c : c.call = "tr_cacheReadBlock")

\* C34: verify(piece) with all block reads succeeding issues exactly one
\* prefetch(piece, 0, piece_length), before the first block read, and then
\* exactly ceil(piece_length / block_size) block reads at offsets 0,
\* block_size, 2*block_size, ... with lengths min(block_size, piece_length -
\* offset), which sum to piece_length; piece_length is total_size -
\* piece*piece_size for the last piece and piece_size otherwise; the loop ends.
C34_BlockReads ==
    \A piece \in 0..(tor.info.pieceCount - 1) :
        LET h == recalculateHash(tor, disk, piece)
            pl == PieceLength(piece)
            bs == tor.blockSize
            reads == BlockSteps(h.log)
            fetches == {n \in DOMAIN h.log : h.log[n].call = "tr_ioPrefetch"}
        IN h.success =>
            /\ fetches = {1}
            /\ h.log[1] = Called("tr_ioPrefetch", piece, 0, pl)
            /\ Len(reads) = (pl + bs - 1) \div bs
            /\ \A k \in 1..Len(reads) :
                   reads[k] = Called("tr_cacheReadBlock", piece, (k - 1) * bs,
                                     Min(bs, pl - (k - 1) * bs))
            /\ Handed(reads, Len(reads)) = pl
            /\ "tr_sha1_final:setme" \in CallsOf(h.log)

\* a piece has been verified whose last block is short: several block reads,
\* the last of fewer bytes than a block
C34_Witness ==
    /\ last.op = "verify"
    /\ last.ret
    /\ PieceLength(last.piece) > tor.blockSize
    /\ PieceLength(last.piece) % tor.blockSize # 0
    /\ last.piece = tor.info.pieceCount - 1
    /\ Len(BlockSteps(recalculateHash(tor, disk, last.piece).log)) = 2

\* the last piece of several has been verified, and is shorter than the others
C34_ShortPiece ==
    /\ last.op = "verify"
    /\ last.ret
    /\ last.piece > 0
    /\ PieceLength(last.piece) < tor.info.pieceSize

(***************************************************************************)
(* The JSON serializer: variant trees, texts as byte sequences, and the     *)
(* callbacks of the walk                                                    *)
(***************************************************************************)
\* tr_variant values: every node has all fields, and uses those of its type
VInt(n) ==
    [type |-> "TR_VARIANT_TYPE_INT", i |-> n, b |-> FALSE, s |-> <<>>,
     keys |-> <<>>, vals |-> <<>>]

VBool(b) ==
    [type |-> "TR_VARIANT_TYPE_BOOL", i |-> 0, b |-> b, s |-> <<>>,
     keys |-> <<>>, vals |-> <<>>]

VStr(s) ==
    [type |-> "TR_VARIANT_TYPE_STR", i |-> 0, b |-> FALSE, s |-> s,
     keys |-> <<>>, vals |-> <<>>]

VList(vals) ==
    [type |-> "TR_VARIANT_TYPE_LIST", i |-> 0, b |-> FALSE, s |-> <<>>,
     keys |-> <<>>, vals |-> vals]

\* a dictionary: keys[k] is the key of vals[k]
VDict(keys, vals) ==
    [type |-> "TR_VARIANT_TYPE_DICT", i |-> 0, b |-> FALSE, s |-> <<>>,
     keys |-> keys, vals |-> vals]

tr_variantIsDict(v) ==
    v.type = "TR_VARIANT_TYPE_DICT"

tr_variantIsContainer(v) ==
    v.type \in {"TR_VARIANT_TYPE_DICT", "TR_VARIANT_TYPE_LIST"}

\* the bytes of the decimal digits of n >= 0
RECURSIVE Digits(_)
Digits(n) ==
    IF n < 10 THEN <<48 + n>> ELSE Digits(n \div 10) \o <<48 + (n % 10)>>

\* evbuffer_add_printf(out, "%" PRId64, i)
IntText(n) ==
    IF n < 0 THEN <<45>> \o Digits(0 - n) ELSE Digits(n)

\* the byte of a hexadecimal digit, in lower case as %x prints it
HexByte(d) ==
    IF d < 10 THEN 48 + d ELSE 97 + (d - 10)

\* the hexadecimal digits of n, at least `width' of them: %0<width>x
RECURSIVE HexText(_, _)
HexText(n, width) ==
    IF n < 16 /\ width <= 1 THEN <<HexByte(n)>>
    ELSE HexText(n \div 16, width - 1) \o <<HexByte(n % 16)>>

\* isprint() of a byte, in the C locale
isprint(c) ==
    32 <= c /\ c <= 126

\* how many bytes follow the first byte of a UTF-8 sequence
TrailingBytesForUTF8(c) ==
    IF c < 192 THEN 0
    ELSE IF c < 224 THEN 1
    ELSE IF c < 240 THEN 2
    ELSE IF c < 248 THEN 3
    ELSE IF c < 252 THEN 4
    ELSE 5

\* isLegalUTF8(source, length): the sequence src[1..n] is well-formed UTF-8
isLegalUTF8(src, n) ==
    /\ n <= 4
    /\ \A k \in 2..n : 128 <= src[k] /\ src[k] <= 191
    /\ n >= 2 => /\ src[1] = 224 => src[2] >= 160
                 /\ src[1] = 237 => src[2] <= 159
                 /\ src[1] = 240 => src[2] >= 144
                 /\ src[1] = 244 => src[2] <= 143
    /\ ~(128 <= src[1] /\ src[1] < 194)
    /\ src[1] <= 244

\* the code point of the well-formed sequence src[1..n]
CodePoint(src, n) ==
    IF n = 1 THEN src[1]
    ELSE IF n = 2 THEN (src[1] - 192) * 64 + (src[2] - 128)
    ELSE IF n = 3 THEN (src[1] - 224) * 4096 + (src[2] - 128) * 64 + (src[3] - 128)
    ELSE (src[1] - 240) * 262144 + (src[2] - 128) * 4096 + (src[3] - 128) * 64
             + (src[4] - 128)

\* what ConvertUTF8toUTF32 finds at the start of src: "ok", or why not
SequenceAt(src) ==
    LET n == TrailingBytesForUTF8(src[1]) + 1
    IN IF n > Len(src) THEN "sourceExhausted"
       ELSE IF ~isLegalUTF8(src, n) THEN "sourceIllegal"
       ELSE "ok"

\* ConvertUTF8toUTF32(&tmp, end, &u32, buf + 1, strict) with room for one
\* code point: the result, how far tmp has moved, and the code point stored.
\* With source left after the first code point, the function looks at the
\* next sequence and reports it: targetExhausted when that one is well-formed
ConvertUTF8toUTF32(src) ==
    LET n == TrailingBytesForUTF8(src[1]) + 1
        rest == SubSeq(src, n + 1, Len(src))
    IN IF SequenceAt(src) # "ok"
       THEN [result |-> SequenceAt(src), moved |-> 0, u32 |-> 0]
       ELSE [result |-> IF rest = <<>> THEN "conversionOK"
                        ELSE IF SequenceAt(rest) = "ok" THEN "targetExhausted"
                        ELSE SequenceAt(rest),
             moved |-> n,
             u32 |-> CodePoint(src, n)]

\* what the loop of jsonStringFunc writes for the byte at str[it] and the
\* bytes after it
RECURSIVE EscapeFrom(_, _)
EscapeFrom(str, it) ==
    IF it > Len(str) THEN <<>>
    ELSE LET c == str[it]
             cv == ConvertUTF8toUTF32(SubSeq(str, it, Len(str)))
         IN IF c = 8 THEN <<92, 98>> \o EscapeFrom(str, it + 1)
            ELSE IF c = 12 THEN <<92, 102>> \o EscapeFrom(str, it + 1)
            ELSE IF c = 10 THEN <<92, 110>> \o EscapeFrom(str, it + 1)
            ELSE IF c = 13 THEN <<92, 114>> \o EscapeFrom(str, it + 1)
            ELSE IF c = 9 THEN <<92, 116>> \o EscapeFrom(str, it + 1)
            ELSE IF c = 34 THEN <<92, 34>> \o EscapeFrom(str, it + 1)
            ELSE IF c = 92 THEN <<92, 92>> \o EscapeFrom(str, it + 1)
            ELSE IF isprint(c) THEN <<c>> \o EscapeFrom(str, it + 1)
            ELSE IF cv.result \in {"conversionOK", "targetExhausted"} /\ cv.moved # 0
            THEN <<92, 117>> \o HexText(cv.u32, 4) \o EscapeFrom(str, it + cv.moved)
            ELSE EscapeFrom(str, it + 1)

\* the bytes jsonStringFunc commits to the output for the string str: the
\* quotes and what is between them (outwalk - out bytes)
EscapedString(str) ==
    <<34>> \o EscapeFrom(str, 1) \o <<34>>

\* the bytes jsonStringFunc asks evbuffer_reserve_space for
ReservedSpace(str) ==
    Len(str) * 4

\* static void jsonIndent(data): a line break and four blanks per open container
jsonIndent(data) ==
    IF data.doIndent
    THEN [data EXCEPT !.out = @ \o <<10>> \o [k \in 1..(Len(data.parents) * 4) |-> 32]]
    ELSE data

\* a slip: the index before the increment is compared with the count
IsLast_BeforeIncrement(pstate) ==
    pstate.childIndex = pstate.childCount

\* bool const is_last = pstate.childIndex == pstate.childCount, with pstate
\* as it was before ++pstate.childIndex
IsLast(pstate) ==
    pstate.childIndex + 1 = pstate.childCount

\* if (!is_last) { evbuffer_add(out, ",", 1); jsonIndent(data); }, with
\* pstate as it was before ++pstate.childIndex
Separated(data, pstate) ==
    IF ~IsLast(pstate) THEN jsonIndent([data EXCEPT !.out = @ \o <<44>>]) ELSE data

\* static void jsonChildFunc(data): a child of the innermost open container
\* has been written
jsonChildFunc(data) ==
    IF data.parents = <<>> THEN data
    ELSE LET n == Len(data.parents)
             pstate == data.parents[n]
             counted == [data EXCEPT !.parents[n].childIndex = @ + 1]
         IN IF pstate.variantType = "TR_VARIANT_TYPE_DICT"
            THEN IF pstate.childIndex % 2 = 0
                 THEN [counted EXCEPT !.out = @ \o (IF data.doIndent THEN <<58, 32>>
                                                    ELSE <<58>>)]
                 ELSE Separated(counted, pstate)
            ELSE IF pstate.variantType = "TR_VARIANT_TYPE_LIST"
            THEN Separated(counted, pstate)
            ELSE data

\* static void jsonPushParent(data, v)
jsonPushParent(data, v) ==
    [data EXCEPT !.parents = Append(@, [variantType |-> v.type,
                                        childIndex |-> 0,
                                        childCount |-> IF tr_variantIsDict(v)
                                                       THEN Len(v.vals) * 2
                                                       ELSE Len(v.vals)])]

\* static void jsonPopParent(data)
jsonPopParent(data) ==
    [data EXCEPT !.parents = SubSeq(@, 1, Len(@) - 1)]

\* static void jsonIntFunc(val, vdata)
jsonIntFunc(val, data) ==
    jsonChildFunc([data EXCEPT !.out = @ \o IntText(val.i)])

\* static void jsonBoolFunc(val, vdata)
jsonBoolFunc(val, data) ==
    jsonChildFunc([data EXCEPT !.out = @ \o (IF val.b THEN <<116, 114, 117, 101>>
                                             ELSE <<102, 97, 108, 115, 101>>)])

\* static void jsonStringFunc(val, vdata)
jsonStringFunc(val, data) ==
    jsonChildFunc([data EXCEPT !.out = @ \o EscapedString(val.s)])

\* static void jsonDictBeginFunc(val, vdata)
jsonDictBeginFunc(val, data) ==
    LET opened == [jsonPushParent(data, val) EXCEPT !.out = @ \o <<123>>]
    IN IF Len(val.vals) # 0 THEN jsonIndent(opened) ELSE opened

\* static void jsonListBeginFunc(val, vdata)
jsonListBeginFunc(val, data) ==
    LET opened == [jsonPushParent(data, val) EXCEPT !.out = @ \o <<91>>]
    IN IF Len(val.vals) # 0 THEN jsonIndent(opened) ELSE opened

\* static void jsonContainerEndFunc(val, vdata); emptyContainer is always false
jsonContainerEndFunc(val, data) ==
    jsonChildFunc([jsonIndent(jsonPopParent(data)) EXCEPT
                      !.out = @ \o (IF tr_variantIsDict(val) THEN <<125>> ELSE <<93>>)])

\* the callback tr_variantWalk makes for a value that is not a container
LeafFunc(v, data) ==
    IF v.type = "TR_VARIANT_TYPE_INT" THEN jsonIntFunc(v, data)
    ELSE IF v.type = "TR_VARIANT_TYPE_BOOL" THEN jsonBoolFunc(v, data)
    ELSE jsonStringFunc(v, data)

\* a node of the stack of tr_variantWalk
SaveNode(v) ==
    [v |-> v, is_visited |-> FALSE, child_index |-> 0]

\* the variant trees that are serialized: an int, a bool, a string with a
\* quote, a comma and a bracket in it, a string of one character outside the
\* basic plane (U+1F600); lists and dictionaries of up to two of these; lists
\* and dictionaries of up to two of those.  Dictionaries hold their keys in
\* sorted order, as the walk visits them.
JsonLeaves ==
    {VInt(0 - 12), VBool(TRUE), VStr(<<34, 44, 93>>), VStr(<<240, 159, 152, 128>>)}

JsonKeys ==
    <<<<97>>, <<98>>>>

Containers(of) ==
    LET rows == UNION {[1..k -> of] : k \in 0..2}
    IN {VList(q) : q \in rows} \cup {VDict(SubSeq(JsonKeys, 1, Len(q)), q) : q \in rows}

JsonTrees ==
    JsonLeaves \cup Containers(JsonLeaves \cup Containers(JsonLeaves))

\* the walk has not started: tr_variantToBufJson has set up data, and
\* tr_variantWalk has put the top value on its stack
InitJson ==
    /\ infoDict \in JsonTrees
    /\ \E lean \in BOOLEAN : tor = [doIndent |-> ~lean, parents |-> <<>>, out |-> <<>>]
    /\ disk = <<SaveNode(infoDict)>>
    /\ clock = 0
    /\ peers = NULL
    /\ last = [op |-> "none"]
    /\ hist = NoHistory(-1)
    /\ returns = <<>>

\* tr_variantWalk, a pass of its loop: the node on top of the stack has not
\* been visited; a container is begun, any other value is written
JsonVisit ==
    /\ disk # <<>>
    /\ ~disk[Len(disk)].is_visited
    /\ LET v == disk[Len(disk)].v
       IN /\ tor' = IF tr_variantIsDict(v) THEN jsonDictBeginFunc(v, tor)
                    ELSE IF tr_variantIsContainer(v) THEN jsonListBeginFunc(v, tor)
                    ELSE LeafFunc(v, tor)
          /\ disk' = [disk EXCEPT ![Len(disk)].is_visited = TRUE]
          /\ last' = [op |-> "visit"]
    /\ UNCHANGED <<infoDict, clock, peers, hist, returns>>

\* a pass for the next child of the container on top: in a dictionary its
\* key is written as a string; then a container child is put on the stack,
\* any other child is written
JsonChild ==
    /\ disk # <<>>
    /\ LET node == disk[Len(disk)]
       IN /\ node.is_visited
          /\ tr_variantIsContainer(node.v)
          /\ node.child_index < Len(node.v.vals)
          /\ LET v == node.v.vals[node.child_index + 1]
                 keyed == IF tr_variantIsDict(node.v)
                          THEN jsonStringFunc(VStr(node.v.keys[node.child_index + 1]), tor)
                          ELSE tor
                 stepped == [disk EXCEPT ![Len(disk)].child_index = @ + 1]
             IN /\ tor' = IF tr_variantIsContainer(v) THEN keyed ELSE LeafFunc(v, keyed)
                /\ disk' = IF tr_variantIsContainer(v) THEN Append(stepped, SaveNode(v))
                           ELSE stepped
                /\ last' = [op |-> "child"]
    /\ UNCHANGED <<infoDict, clock, peers, hist, returns>>

\* a pass for a node that is done: a container is ended, the node leaves
\* the stack
JsonEnd ==
    /\ disk # <<>>
    /\ LET node == disk[Len(disk)]
       IN /\ node.is_visited
          /\ ~(tr_variantIsContainer(node.v) /\ node.child_index < Len(node.v.vals))
          /\ tor' = IF tr_variantIsContainer(node.v) THEN jsonContainerEndFunc(node.v, tor)
                    ELSE tor
          /\ disk' = SubSeq(disk, 1, Len(disk) - 1)
          /\ last' = [op |-> "end"]
    /\ UNCHANGED <<infoDict, clock, peers, hist, returns>>

\* void tr_variantToBufJson(top, buf, lean), after the walk:
\* if (evbuffer_get_length(buf) != 0) evbuffer_add_printf(buf, "\n")
JsonFinish ==
    /\ disk = <<>>
    /\ last.op # "done"
    /\ tor' = IF tor.out # <<>> THEN [tor EXCEPT !.out = @ \o <<10>>] ELSE tor
    /\ last' = [op |-> "done"]
    /\ UNCHANGED <<infoDict, disk, clock, peers, hist, returns>>

NextJson ==
    \/ JsonVisit
    \/ JsonChild
    \/ JsonEnd
    \/ JsonFinish

SpecJson == InitJson /\ [][NextJson]_vars

(***************************************************************************)
(* A JSON parser to read the serializer's output back: RFC 8259, with a     *)
(* separator required between siblings and refused before a closing         *)
(* bracket, and \uXXXX read as one code unit                                *)
(***************************************************************************)
Parsed(v, pos) ==
    [ok |-> TRUE, v |-> v, pos |-> pos]

NotParsed ==
    [ok |-> FALSE, v |-> VInt(0), pos |-> 0]

\* the byte at position p of a text, -1 outside it
At(text, p) ==
    IF 1 <= p /\ p <= Len(text) THEN text[p] ELSE 0 - 1

\* the first position from p on that holds no white space
SkipWs(text, p) ==
    LET rest == {k \in p..Len(text) : text[k] \notin {32, 10, 13, 9}}
    IN IF rest = {} THEN Len(text) + 1 ELSE CHOOSE k \in rest : \A j \in rest : k <= j

\* the value of a hexadecimal digit, -1 for another byte
HexValue(c) ==
    IF 48 <= c /\ c <= 57 THEN c - 48
    ELSE IF 97 <= c /\ c <= 102 THEN c - 87
    ELSE IF 65 <= c /\ c <= 70 THEN c - 55
    ELSE 0 - 1

\* the UTF-8 bytes of a code point of the basic plane
UTF8Of(cp) ==
    IF cp < 128 THEN <<cp>>
    ELSE IF cp < 2048 THEN <<192 + (cp \div 64), 128 + (cp % 64)>>
    ELSE <<224 + (cp \div 4096), 128 + ((cp \div 64) % 64), 128 + (cp % 64)>>

Text(s) ==
    [ok |-> TRUE, s |-> s]

BadText ==
    [ok |-> FALSE, s |-> <<>>]

Prepend(bytes, r) ==
    IF r.ok THEN Text(bytes \o r.s) ELSE r

\* the byte a two-character escape stands for, -1 when there is none
SimpleEscape(c) ==
    IF c = 98 THEN 8 ELSE IF c = 102 THEN 12 ELSE IF c = 110 THEN 10
    ELSE IF c = 114 THEN 13 ELSE IF c = 116 THEN 9
    ELSE IF c \in {47, 34, 92} THEN c ELSE 0 - 1

\* the string that the text between two quotes stands for, from position i on
RECURSIVE UnescapeText(_, _)
UnescapeText(s, i) ==
    IF i > Len(s) THEN Text(<<>>)
    ELSE IF s[i] = 92
    THEN IF At(s, i + 1) = 117
         THEN IF \E k \in 2..5 : HexValue(At(s, i + k)) = 0 - 1 THEN BadText
              ELSE LET cp == HexValue(s[i + 2]) * 4096 + HexValue(s[i + 3]) * 256
                             + HexValue(s[i + 4]) * 16 + HexValue(s[i + 5])
                   IN IF 55296 <= cp /\ cp <= 57343 THEN BadText
                      ELSE Prepend(UTF8Of(cp), UnescapeText(s, i + 6))
         ELSE IF SimpleEscape(At(s, i + 1)) = 0 - 1 THEN BadText
         ELSE Prepend(<<SimpleEscape(s[i + 1])>>, UnescapeText(s, i + 2))
    ELSE IF s[i] < 32 \/ s[i] = 34 THEN BadText
    ELSE Prepend(<<s[i]>>, UnescapeText(s, i + 1))

\* the number of backslashes right before position k, not before position p
Backslashes(text, p, k) ==
    CHOOSE n \in 0..(k - p) :
        /\ \A j \in 1..n : text[k - j] = 92
        /\ n = k - p \/ text[k - n - 1] # 92

\* the quote that closes the string opened at position p, 0 when there is none
ClosingQuote(text, p) ==
    LET ends == {k \in (p + 1)..Len(text) :
                    text[k] = 34 /\ Backslashes(text, p + 1, k) % 2 = 0}
    IN IF ends = {} THEN 0 ELSE CHOOSE k \in ends : \A j \in ends : k <= j

StringUpTo(text, p, q) ==
    IF q = 0 THEN NotParsed
    ELSE IF ~UnescapeText(SubSeq(text, p + 1, q - 1), 1).ok THEN NotParsed
    ELSE Parsed(VStr(UnescapeText(SubSeq(text, p + 1, q - 1), 1).s), q + 1)

\* a string at position p
ParseString(text, p) ==
    IF At(text, p) # 34 THEN NotParsed ELSE StringUpTo(text, p, ClosingQuote(text, p))

\* the value of the digits text[from..to]
RECURSIVE DigitsValue(_, _, _)
DigitsValue(text, from, to) ==
    IF to < from THEN 0 ELSE DigitsValue(text, from, to - 1) * 10 + (text[to] - 48)

\* the first position from p on that holds no digit
SkipDigits(text, p) ==
    LET rest == {k \in p..Len(text) : text[k] < 48 \/ text[k] > 57}
    IN IF rest = {} THEN Len(text) + 1 ELSE CHOOSE k \in rest : \A j \in rest : k <= j

\* a whole number at position p
ParseInt(text, p) ==
    LET from == IF At(text, p) = 45 THEN p + 1 ELSE p
        to == SkipDigits(text, from) - 1
    IN IF to < from THEN NotParsed
       ELSE Parsed(VInt(IF from = p THEN DigitsValue(text, from, to)
                        ELSE 0 - DigitsValue(text, from, to)), to + 1)

ParseWord(text, p, word, v) ==
    IF SubSeq(text, p, Min(Len(text), p + Len(word) - 1)) = word
    THEN Parsed(v, p + Len(word))
    ELSE NotParsed

RECURSIVE ParseValue(_, _)
RECURSIVE ParseElements(_, _, _)
RECURSIVE ParseMembers(_, _, _, _)

\* after an element of a list: a separator and more elements, or the end
ListGoesOn(text, acc, q) ==
    IF At(text, q) = 44 THEN ParseElements(text, q + 1, acc)
    ELSE IF At(text, q) = 93 THEN Parsed(VList(acc), q + 1)
    ELSE NotParsed

AfterElement(text, acc, r) ==
    IF ~r.ok THEN NotParsed ELSE ListGoesOn(text, Append(acc, r.v), SkipWs(text, r.pos))

\* the elements of a list from position p on, after those in acc
ParseElements(text, p, acc) ==
    AfterElement(text, acc, ParseValue(text, p))

\* after a member of a dictionary
DictGoesOn(text, keys, vals, q) ==
    IF At(text, q) = 44 THEN ParseMembers(text, q + 1, keys, vals)
    ELSE IF At(text, q) = 125 THEN Parsed(VDict(keys, vals), q + 1)
    ELSE NotParsed

AfterMember(text, keys, vals, r) ==
    IF ~r.ok THEN NotParsed
    ELSE DictGoesOn(text, keys, Append(vals, r.v), SkipWs(text, r.pos))

AfterColon(text, keys, vals, q) ==
    IF At(text, q) # 58 THEN NotParsed
    ELSE AfterMember(text, keys, vals, ParseValue(text, q + 1))

AfterKey(text, keys, vals, k) ==
    IF ~k.ok THEN NotParsed
    ELSE AfterColon(text, Append(keys, k.v.s), vals, SkipWs(text, k.pos))

\* the members of a dictionary from position p on
ParseMembers(text, p, keys, vals) ==
    AfterKey(text, keys, vals, ParseString(text, SkipWs(text, p)))

\* the value that starts at position p, which holds no white space
ValueAt(text, p) ==
    IF At(text, p) = 123
    THEN IF At(text, SkipWs(text, p + 1)) = 125
         THEN Parsed(VDict(<<>>, <<>>), SkipWs(text, p + 1) + 1)
         ELSE ParseMembers(text, p + 1, <<>>, <<>>)
    ELSE IF At(text, p) = 91
    THEN IF At(text, SkipWs(text, p + 1)) = 93
         THEN Parsed(VList(<<>>), SkipWs(text, p + 1) + 1)
         ELSE ParseElements(text, p + 1, <<>>)
    ELSE IF At(text, p) = 34 THEN ParseString(text, p)
    ELSE IF At(text, p) = 116 THEN ParseWord(text, p, <<116, 114, 117, 101>>, VBool(TRUE))
    ELSE IF At(text, p) = 102
    THEN ParseWord(text, p, <<102, 97, 108, 115, 101>>, VBool(FALSE))
    ELSE ParseInt(text, p)

ParseValue(text, p) ==
    ValueAt(text, SkipWs(text, p))

WholeText(text, r) ==
    IF r.ok /\ SkipWs(text, r.pos) = Len(text) + 1 THEN r ELSE NotParsed

\* the tree a text stands for, when it is one JSON value and nothing else
ParseJson(text) ==
    WholeText(text, ParseValue(text, 1))

(***************************************************************************)
(* Claims about the JSON serializer                                         *)
(***************************************************************************)
\* the string that the serializer's text of a string reads back as
StringReadBack(str) ==
    UnescapeText(EscapeFrom(str, 1), 1).s

\* a tree with every string and key replaced by what its text reads back as
RECURSIVE ReadBack(_)
ReadBack(v) ==
    [v EXCEPT !.s = StringReadBack(v.s),
              !.keys = [k \in 1..Len(v.keys) |-> StringReadBack(v.keys[k])],
              !.vals = [k \in 1..Len(v.vals) |-> ReadBack(v.vals[k])]]

\* the containers the walk has begun and not ended
OpenContainers ==
    {k \in 1..Len(disk) : disk[k].is_visited /\ tr_variantIsContainer(disk[k].v)}

\* C35 (as stated): for every variant tree of ints, bools, strings, lists and
\* dicts, the serializer puts exactly one ',' between consecutive siblings
\* and none before a closing bracket, one ':' between a key and its value,
\* balanced brackets of the right kind, and leaves its parent stack empty when
\* the walk ends, so that the output parses back to an equal tree.
C35_AsClaimed ==
    last.op = "done" =>
        /\ tor.parents = <<>>
        /\ ParseJson(tor.out).ok
        /\ ParseJson(tor.out).v = infoDict

\* C35, the part about separators, brackets and the parent stack: the parent
\* stack holds one entry per container begun and not ended, and at the end
\* it is empty and the output parses, with a separator between siblings only,
\* to the tree of the same shape, ints and bools, whose strings are what
\* their own texts read back as.
C35_Structure ==
    /\ Len(tor.parents) = Cardinality(OpenContainers)
    /\ last.op = "done" =>
           /\ tor.parents = <<>>
           /\ ParseJson(tor.out).ok
           /\ ParseJson(tor.out).v = ReadBack(infoDict)

\* the serializer has finished, with indentation, a dictionary whose first
\* value is an empty list and whose second is a dictionary of two members,
\* and the output has been read back as that tree
C35_Witness ==
    /\ last.op = "done"
    /\ tor.doIndent
    /\ tr_variantIsDict(infoDict)
    /\ Len(infoDict.vals) = 2
    /\ infoDict.vals[1] = VList(<<>>)
    /\ tr_variantIsDict(infoDict.vals[2])
    /\ Len(infoDict.vals[2].vals) = 2
    /\ infoDict.vals[2].vals[2] = VStr(<<34, 44, 93>>)
    /\ ParseJson(tor.out).v = infoDict

\* the serializer has finished a list that holds the string of one character
\* outside the basic plane, and the output reads back as another tree
C35_Broken ==
    /\ last.op = "done"
    /\ infoDict = VList(<<VStr(<<240, 159, 152, 128>>)>>)
    /\ ~tor.doIndent
    /\ tor.out = <<91, 34, 92, 117, 49, 102, 54, 48, 48, 34, 93, 10>>
    /\ ParseJson(tor.out).ok
    /\ ParseJson(tor.out).v = VList(<<VStr(<<225, 189, 160, 48>>)>>)

(***************************************************************************)
(* The assembly specification: size hints and deliveries, with the          *)
(* deliveries stored since the last accepted hint or reset kept in          *)
(* `returns', and in `hist.reset' whether an assembly has failed            *)
(***************************************************************************)
InitAssembly ==
    InitWith(InstallPeers, 0, {-1}, InfoDicts,
             {[torrent |-> "magnet-stub", resume |-> TRUE]}, {FALSE})

\* the outcomes of a delivery that ran the installation sequence
InstallOutcomes ==
    InstallFailures \cup {"installed"}

AssemblyHint(size) ==
    LET r == tr_torrentSetMetadataSizeHint(tor, size)
    IN /\ tor' = r.tor
       /\ last' = [NoCall EXCEPT !.op = "hint",
                                 !.outcome = IF r.ret THEN "accepted" ELSE "rejected"]
       /\ returns' = IF r.ret THEN <<>> ELSE returns
       /\ UNCHANGED <<disk, infoDict, clock, peers, hist>>

AssemblyDeliver(piece, val, len) ==
    LET r == tr_torrentSetMetadataPiece(tor, disk, infoDict, piece, val, len)
    IN /\ tor' = r.tor
       /\ disk' = r.disk
       /\ last' = [NoCall EXCEPT !.op = "deliver", !.outcome = r.outcome, !.piece = piece]
       /\ returns' = IF r.outcome = "stored"
                     THEN Append(returns, [piece |-> piece, val |-> val, len |-> len])
                     ELSE IF r.outcome \in InstallOutcomes THEN <<>>
                     ELSE returns
       /\ hist' = IF r.outcome \in InstallFailures THEN [hist EXCEPT !.reset = TRUE]
                  ELSE hist
       /\ UNCHANGED <<infoDict, clock, peers>>

NextAssembly ==
    \/ \E size \in peers.sizes : AssemblyHint(size)
    \/ \E piece \in peers.pieces, val \in peers.vals, len \in peers.lens :
           AssemblyDeliver(piece, val, len)

SpecAssembly == InitAssembly /\ [][NextAssembly]_vars

(***************************************************************************)
(* Claims about what the checksum is computed over                          *)
(***************************************************************************)
\* whether the byte ranges of two stored deliveries have a byte in common
Overlap(a, b) ==
    /\ PieceOffset(a.piece) < PieceOffset(b.piece) + b.len
    /\ PieceOffset(b.piece) < PieceOffset(a.piece) + a.len

\* C36: whenever the installation sequence runs, every byte of
\* buffer[0 .. size) was written by a delivery stored since the most recent
\* accepted size hint or reset: the ranges [i*16384, i*16384 + expected_len(i))
\* of these deliveries are pairwise disjoint and cover the buffer exactly, and
\* the buffer the checksum is computed over holds in each range the bytes of
\* its delivery, so no byte of an earlier failed assembly and no unwritten
\* byte.
C36_Assembled ==
    \A piece \in peers.pieces, val \in peers.vals, len \in peers.lens :
        LET r == tr_torrentSetMetadataPiece(tor, disk, infoDict, piece, val, len)
            m == tor.incompleteMetadata
            stored == Append(returns, [piece |-> piece, val |-> val, len |-> len])
            buffer == memcpy(m.metadata, PieceOffset(piece), val, len)
        IN r.outcome \in InstallOutcomes =>
            /\ \A i, j \in DOMAIN stored : i # j => ~Overlap(stored[i], stored[j])
            /\ \A i \in DOMAIN stored :
                   /\ 0 <= PieceOffset(stored[i].piece)
                   /\ PieceOffset(stored[i].piece) + stored[i].len <= m.metadata_size
                   /\ stored[i].len = getPieceLength(m, stored[i].piece)
                   /\ SliceBytes(buffer, PieceOffset(stored[i].piece), stored[i].len)
                          = Bytes(stored[i].len, stored[i].val)
            /\ SumSeq([i \in DOMAIN stored |-> stored[i].len]) = m.metadata_size
            /\ BufLen(buffer) = m.metadata_size
            /\ r.outcome \in InstallFailures
                   => r.tor.incompleteMetadata.metadata = buffer
            /\ r.outcome # "checksum-failed" => Coalesce(buffer) = infoDict.bytes

\* an assembly has failed with wrong bytes in its buffer, and a later one,
\* of pieces delivered anew, has been installed
C36_Witness ==
    /\ last.op = "deliver"
    /\ last.outcome = "installed"
    /\ hist.reset
    /\ returns = <<>>

\* an assembly is under way after a failed one: a piece of the right bytes is
\* stored, and the buffer still holds wrong bytes of the failed assembly
C36_Stale ==
    /\ hist.reset
    /\ Len(returns) = 1
    /\ returns[1].val = "good"
    /\ tor.incompleteMetadata # NULL
    /\ \E k \in DOMAIN tor.incompleteMetadata.metadata :
           tor.incompleteMetadata.metadata[k].val = "bad"

(***************************************************************************)
(* The string specification: jsonStringFunc on one string value            *)
(***************************************************************************)
\* the bytes the strings are made of: a letter, a quote, a line feed, a
\* control character, the two bytes of U+00E9 and the four of U+1F600 (each
\* of them ill-formed when it stands alone)
StringBytes ==
    {97, 34, 10, 1, 195, 169, 240, 159, 152, 128}

\* the strings that are written: up to four bytes
JsonStrings ==
    UNION {[1..k -> StringBytes] : k \in 0..4}

InitStrings ==
    /\ \E s \in JsonStrings : infoDict = VStr(s)
    /\ tor = [doIndent |-> FALSE, parents |-> <<>>, out |-> <<>>]
    /\ disk = <<>>
    /\ clock = 0
    /\ peers = NULL
    /\ last = [op |-> "none", requested |-> 0, written |-> 0]
    /\ hist = NoHistory(-1)
    /\ returns = <<>>

\* jsonStringFunc(val, data) for a value with no parent
WriteString ==
    /\ last.op = "none"
    /\ tor' = jsonStringFunc(infoDict, tor)
    /\ last' = [op |-> "string",
                requested |-> ReservedSpace(infoDict.s),
                written |-> Len(jsonStringFunc(infoDict, tor).out) - Len(tor.out)]
    /\ UNCHANGED <<infoDict, disk, clock, peers, hist, returns>>

NextStrings ==
    WriteString

SpecStrings == InitStrings /\ [][NextStrings]_vars

(***************************************************************************)
(* Claims about the space jsonStringFunc writes to                          *)
(***************************************************************************)
\* C37 (as stated): for every string value of length len, jsonStringFunc
\* writes no more bytes (opening quote, escaped content, closing quote) into
\* the output region than the len*4 bytes it requested from
\* evbuffer_reserve_space.
C37_AsClaimed ==
    last.op = "string" => last.written <= last.requested

\* what holds instead: the two quotes and at most six bytes per byte of the
\* string are written, and never fewer than the two quotes
C37_SixPerByte ==
    last.op = "string" =>
        /\ 2 <= last.written
        /\ last.written <= 6 * Len(infoDict.s) + 2
        /\ last.written = Len(tor.out)

\* the empty string has been written: two bytes, none requested
C37_Witness ==
    /\ last.op = "string"
    /\ infoDict.s = <<>>
    /\ last.requested = 0
    /\ last.written = 2
    /\ tor.out = <<34, 34>>

\* a string of one control character has been written: eight bytes, four
\* requested
C37_Control ==
    /\ last.op = "string"
    /\ infoDict.s = <<1>>
    /\ last.requested = 4
    /\ tor.out = <<34, 92, 117, 48, 48, 48, 49, 34>>

(***************************************************************************)
(* The escape specification: extract_escaped_string on one input           *)
(***************************************************************************)
\* the pieces the inputs are made of: a plain byte, a valid escape, an
\* unknown escape, a backslash alone, é, A, the lone surrogates
\* \ud800 and \uDFFF, a \u cut short, and \u with a byte that is no
\* hexadecimal digit in it
EscapeTokens ==
    {<<120>>, <<92, 110>>, <<92, 120>>, <<92>>,
     <<92, 117, 48, 48, 101, 57>>, <<92, 117, 48, 48, 52, 49>>,
     <<92, 117, 100, 56, 48, 48>>, <<92, 117, 68, 70, 70, 70>>,
     <<92, 117, 48, 48>>, <<92, 117, 48, 120, 48, 48>>}

\* the inputs: up to three pieces one after another
EscapeInputs ==
    {<<>>} \cup EscapeTokens
        \cup {a \o b : a \in EscapeTokens, b \in EscapeTokens}
        \cup {a \o b \o c : a \in EscapeTokens, b \in EscapeTokens, c \in EscapeTokens}

\* what may stand in memory right after the input: the quote that closes the
\* string in the caller's text, or any other byte
BytesBeyond ==
    {34, 0, 92}

\* decode_hex_string(in, &val) with in at position i of mem: whether the four
\* bytes after \u are hexadecimal digits, their value, and the positions read
decode_hex_string(mem, i) ==
    LET bad == {k \in 2..5 : HexValue(mem[i + k]) = 0 - 1}
        stop == IF bad = {} THEN 5 ELSE CHOOSE k \in bad : \A j \in bad : k <= j
    IN [ok |-> bad = {},
        val |-> IF bad = {}
                THEN HexValue(mem[i + 2]) * 4096 + HexValue(mem[i + 3]) * 256
                         + HexValue(mem[i + 4]) * 16 + HexValue(mem[i + 5])
                ELSE 0,
        reads |-> (i + 2)..(i + stop)]

\* ConvertUTF32toUTF8 of one code unit, strict: a surrogate is illegal
ConvertUTF32toUTF8(ch) ==
    IF 55296 <= ch /\ ch <= 57343
    THEN [result |-> "sourceIllegal", str8 |-> <<>>]
    ELSE [result |-> "conversionOK", str8 |-> UTF8Of(ch)]

\* the state of the loop: the read cursor, the buffer, for each byte of the
\* buffer the position of the input it was made from, and the positions read
EscapeState(in, buf, from, reads, unescaped) ==
    [in |-> in, buf |-> buf, from |-> from, reads |-> reads, unescaped |-> unescaped]

\* evbuffer_add(buf, bytes, n) of bytes made from position p; in += n
Unescaped(st, bytes, n, reads) ==
    EscapeState(st.in + n, st.buf \o bytes,
                st.from \o [k \in 1..Len(bytes) |-> st.in], st.reads \cup reads, TRUE)

\* case 'u' of the switch
EscapeU(mem, in_end, st) ==
    IF in_end - st.in >= 6
    THEN LET hex == decode_hex_string(mem, st.in)
             seen == {st.in, st.in + 1} \cup hex.reads
         IN IF hex.ok
            THEN IF ConvertUTF32toUTF8(hex.val).result = "conversionOK"
                 THEN Unescaped(st, ConvertUTF32toUTF8(hex.val).str8, 6, seen)
                 ELSE EscapeState(st.in + 6, st.buf, st.from, st.reads \cup seen, FALSE)
            ELSE EscapeState(st.in, st.buf, st.from, st.reads \cup seen, FALSE)
    ELSE EscapeState(st.in, st.buf, st.from, st.reads \cup {st.in, st.in + 1}, FALSE)

\* if (*in == '\\' && in_end - in >= 2) switch (in[1])
EscapeSwitch(mem, in_end, st) ==
    IF mem[st.in] = 92 /\ in_end - st.in >= 2
    THEN IF mem[st.in + 1] = 117 THEN EscapeU(mem, in_end, st)
         ELSE IF SimpleEscape(mem[st.in + 1]) # 0 - 1
         THEN Unescaped(st, <<SimpleEscape(mem[st.in + 1])>>, 2, {st.in, st.in + 1})
         ELSE EscapeState(st.in, st.buf, st.from, st.reads \cup {st.in, st.in + 1}, FALSE)
    ELSE EscapeState(st.in, st.buf, st.from, st.reads \cup {st.in}, FALSE)

\* if (!unescaped) { evbuffer_add(buf, in, 1); ++in; }
EscapePlain_Checked(mem, in_end, st) ==
    IF st.unescaped THEN st
    ELSE IF st.in >= in_end
    THEN EscapeState(st.in, st.buf, st.from, st.reads, FALSE)
    ELSE EscapeState(st.in + 1, st.buf \o <<mem[st.in]>>, st.from \o <<st.in>>,
                     st.reads \cup {st.in}, FALSE)

EscapePlain(mem, in_end, st) ==
    IF st.unescaped THEN st
    ELSE EscapeState(st.in + 1, st.buf \o <<mem[st.in]>>, st.from \o <<st.in>>,
                     st.reads \cup {st.in}, FALSE)

\* one turn of while (in < in_end)
EscapeTurn(mem, in_end, st) ==
    EscapePlain(mem, in_end, EscapeSwitch(mem, in_end, st))

\* extract_escaped_string(in, in_len, len, buf) is entered: the input is at
\* positions 1..in_len of memory, in_end is position in_len + 1
InitEscapes ==
    /\ \E input \in EscapeInputs, beyond \in BytesBeyond :
          disk = [mem |-> input \o <<beyond>>, in_len |-> Len(input),
                  in_end |-> Len(input) + 1]
    /\ tor = EscapeState(1, <<>>, <<>>, {}, FALSE)
    /\ infoDict = NULL
    /\ clock = 0
    /\ peers = NULL
    /\ last = [op |-> "evbuffer_drain", len |-> 0]
    /\ hist = NoHistory(-1)
    /\ returns = <<>>

\* while (in < in_end) { ... }
EscapeLoop ==
    /\ last.op # "return"
    /\ tor.in < disk.in_end
    /\ tor' = EscapeTurn(disk.mem, disk.in_end, tor)
    /\ last' = [op |-> "loop", len |-> 0]
    /\ UNCHANGED <<disk, infoDict, clock, peers, hist, returns>>

\* *len = evbuffer_get_length(buf); return evbuffer_pullup(buf, -1)
EscapeReturn ==
    /\ last.op # "return"
    /\ ~(tor.in < disk.in_end)
    /\ last' = [op |-> "return", len |-> Len(tor.buf)]
    /\ returns' = tor.buf
    /\ UNCHANGED <<tor, disk, infoDict, clock, peers, hist>>

NextEscapes ==
    \/ EscapeLoop
    \/ EscapeReturn

SpecEscapes == InitEscapes /\ [][NextEscapes]_vars

FairEscapes == SpecEscapes /\ WF_vars(NextEscapes)

(***************************************************************************)
(* Claims about extract_escaped_string                                      *)
(***************************************************************************)
\* C38 (as stated): for every input of extract_escaped_string (plain bytes,
\* valid escapes, unknown escapes, truncated or non-hex \u sequences, \uXXXX
\* values that fail the conversion), the read cursor never reads a byte at or
\* beyond in_end and every emitted byte derives from input bytes inside
\* [in, in_end).  (That the loop terminates is C38_Advances and C38_Returns.)
C38_AsClaimed ==
    /\ \A p \in tor.reads : 1 <= p /\ p < disk.in_end
    /\ \A k \in 1..Len(tor.from) : 1 <= tor.from[k] /\ tor.from[k] < disk.in_end

\* the input ends with a \uXXXX whose value is a surrogate
EndsWithSurrogate ==
    /\ disk.in_len >= 6
    /\ disk.mem[disk.in_len - 5] = 92
    /\ disk.mem[disk.in_len - 4] = 117
    /\ decode_hex_string(disk.mem, disk.in_len - 5).ok
    /\ ConvertUTF32toUTF8(decode_hex_string(disk.mem, disk.in_len - 5).val).result
           = "sourceIllegal"

\* what holds instead: the only byte read outside the input is the one at
\* in_end, and only after a \uXXXX of a surrogate that ends the input; the
\* cursor ends at in_end or, in that case, one past it
C38_OneBeyond ==
    /\ \A p \in tor.reads : 1 <= p /\ p <= disk.in_end
    /\ \A k \in 1..Len(tor.from) : 1 <= tor.from[k] /\ tor.from[k] <= disk.in_end
    /\ tor.in <= disk.in_end + 1
    /\ (disk.in_end \in tor.reads \/ tor.in > disk.in_end) => EndsWithSurrogate
    /\ Len(tor.from) = Len(tor.buf)

\* every turn of the loop moves the read cursor forward
C38_Advances ==
    [][tor'.in # tor.in => tor'.in > tor.in /\ tor'.in <= tor.in + 7]_vars

\* the function returns
C38_Returns ==
    <>(last.op = "return")

\* \ud800 alone has been read: the byte after the input was read and is the
\* string that is returned
C38_Witness ==
    /\ last.op = "return"
    /\ SubSeq(disk.mem, 1, disk.in_len) = <<92, 117, 100, 56, 48, 48>>
    /\ disk.in_end \in tor.reads
    /\ tor.in = disk.in_end + 1
    /\ returns = <<disk.mem[disk.in_end]>>
    /\ disk.mem[disk.in_end] = 0

\* a surrogate that does not end the input: the byte after it is emitted as
\* it is, from inside the input
C38_Inside ==
    /\ last.op = "return"
    /\ SubSeq(disk.mem, 1, disk.in_len) = <<92, 117, 100, 56, 48, 48, 92, 110>>
    /\ returns = <<92, 110>>
    /\ disk.in_end \notin tor.reads

(***************************************************************************)
(* The message log window: the log queue, the list store and the chain     *)
(* myHead..myTail                                                          *)
(***************************************************************************)
\* the number of messages that are logged
MaxMessages == 4

Messages == 1..MaxMessages

\* the null pointer among message pointers
nullmsg == 0

\* the nodes from node i on, following next
RECURSIVE ChainFrom(_, _)
ChainFrom(next, i) ==
    IF i = nullmsg THEN <<>> ELSE <<i>> \o ChainFrom(next, next[i])

\* the rows gtk_list_store_insert_with_values(store, nullptr, 0, ...) leaves
\* in the store for the nodes shown, each at position 0, with ++sequence
InsertedRows(shown, sequence) ==
    [k \in 1..Len(shown) |-> [msg |-> shown[k], sequence |-> sequence + k]]

Reversed(rows) ==
    [k \in 1..Len(rows) |-> rows[Len(rows) + 1 - k]]

\* the nodes the loop of addMessages visits:
\* for (i = head; i != nullptr && i->next != nullptr; i = i->next)
Visited(next, head) ==
    IF head = nullmsg THEN <<>>
    ELSE SubSeq(ChainFrom(next, head), 1, Len(ChainFrom(next, head)) - 1)

\* addMessages(store, head): the store, the static sequence and the node
\* returned
addMessages(store, head, next, sequence) ==
    [store |-> Reversed(InsertedRows(Visited(next, head), sequence)) \o store,
     rows |-> InsertedRows(Visited(next, head), sequence),
     sequence |-> sequence + Len(Visited(next, head)),
     tail |-> IF head = nullmsg THEN nullmsg
              ELSE ChainFrom(next, head)[Len(ChainFrom(next, head))]]

\* the window right after it is made, with nothing logged yet
InitMsgWin ==
    /\ tor = [myHead |-> nullmsg, myTail |-> nullmsg, sequence |-> 0,
              next |-> [m \in Messages |-> nullmsg]]
    /\ disk = <<>>
    /\ infoDict = <<>>
    /\ clock = 0
    /\ peers = [isPaused |-> FALSE]
    /\ last = [op |-> "none", paused |-> FALSE, taken |-> <<>>, rows |-> <<>>]
    /\ hist = {}
    /\ returns = <<>>

\* the session logs a message: it is put at the end of the log queue
LogMessage ==
    /\ clock < MaxMessages
    /\ clock' = clock + 1
    /\ infoDict' = Append(infoDict, clock + 1)
    /\ tor' = IF infoDict = <<>> THEN tor
              ELSE [tor EXCEPT !.next[infoDict[Len(infoDict)]] = clock + 1]
    /\ last' = [op |-> "log", paused |-> peers.isPaused, taken |-> <<>>, rows |-> <<>>]
    /\ UNCHANGED <<disk, peers, hist, returns>>

\* onPauseToggled(w, gdata)
onPauseToggled ==
    /\ \E active \in BOOLEAN :
          /\ active # peers.isPaused
          /\ peers' = [isPaused |-> active]
    /\ last' = [op |-> "onPauseToggled", paused |-> peers.isPaused,
                taken |-> <<>>, rows |-> <<>>]
    /\ UNCHANGED <<tor, disk, infoDict, clock, hist, returns>>

\* msgs = tr_logGetQueue(): the head of the queue, which is left empty
QueueHead(queue) ==
    IF queue = <<>> THEN nullmsg ELSE queue[1]

\* onRefresh: myTail->next = msgs or myHead = msgs; myTail = tail
Linked(t, msgs, tail) ==
    [myHead |-> IF t.myTail # nullmsg THEN t.myHead ELSE msgs,
     myTail |-> tail,
     sequence |-> t.sequence,
     next |-> IF t.myTail # nullmsg THEN [t.next EXCEPT ![t.myTail] = msgs] ELSE t.next]

\* onRefresh(gdata)
onRefresh ==
    /\ IF ~peers.isPaused
       THEN /\ infoDict' = <<>>
            /\ IF QueueHead(infoDict) # nullmsg
               THEN LET added == addMessages(disk, QueueHead(infoDict), tor.next,
                                             tor.sequence)
                    IN /\ disk' = added.store
                       /\ tor' = [Linked(tor, QueueHead(infoDict), added.tail)
                                     EXCEPT !.sequence = added.sequence]
                       /\ hist' = hist \cup {added.tail}
                       /\ last' = [op |-> "onRefresh", paused |-> FALSE,
                                   taken |-> infoDict, rows |-> added.rows]
               ELSE /\ last' = [op |-> "onRefresh", paused |-> FALSE,
                                taken |-> <<>>, rows |-> <<>>]
                    /\ UNCHANGED <<tor, disk, hist>>
       ELSE /\ last' = [op |-> "onRefresh", paused |-> TRUE, taken |-> <<>>,
                        rows |-> <<>>]
            /\ UNCHANGED <<tor, disk, infoDict, hist>>
    /\ UNCHANGED <<clock, peers, returns>>

\* onClearRequest(w, gdata)
onClearRequest ==
    /\ disk' = <<>>
    /\ tor' = [tor EXCEPT !.myHead = nullmsg, !.myTail = nullmsg,
                          !.next = [m \in Messages |->
                                       IF \E k \in 1..Len(ChainFrom(tor.next, tor.myHead)) :
                                              ChainFrom(tor.next, tor.myHead)[k] = m
                                       THEN nullmsg ELSE tor.next[m]]]
    /\ last' = [op |-> "onClearRequest", paused |-> peers.isPaused,
                taken |-> <<>>, rows |-> <<>>]
    /\ UNCHANGED <<infoDict, clock, peers, hist, returns>>

NextMsgWin ==
    \/ LogMessage
    \/ onPauseToggled
    \/ onRefresh
    \/ onClearRequest

SpecMsgWin == InitMsgWin /\ [][NextMsgWin]_vars

(***************************************************************************)
(* Claims about the message log window                                      *)
(***************************************************************************)
\* the number of times a node is in the chain myHead..myTail
TimesInChain(m) ==
    Cardinality({k \in 1..Len(ChainFrom(tor.next, tor.myHead)) :
                    ChainFrom(tor.next, tor.myHead)[k] = m})

\* the rows at the top of the store are the rows of the last refresh, the
\* newest first
RowsOnTop ==
    /\ Len(disk) >= Len(last.rows)
    /\ SubSeq(disk, 1, Len(last.rows)) = Reversed(last.rows)

\* sequence numbers go up along the rows of the last refresh
Increasing(rows) ==
    \A j, k \in 1..Len(rows) : j < k => rows[j].sequence < rows[k].sequence

\* every node taken is in the chain once, and myTail is the chain's last node
ChainedOnce ==
    /\ \A k \in 1..Len(last.taken) : TimesInChain(last.taken[k]) = 1
    /\ tor.myTail = ChainFrom(tor.next, tor.myHead)[Len(ChainFrom(tor.next, tor.myHead))]
    /\ tor.myTail = last.taken[Len(last.taken)]

\* C39 (as stated): every log message taken from the log queue by an
\* unpaused refresh is inserted into the list store by that same refresh, in
\* queue order with strictly increasing sequence numbers, and is linked into
\* the persistent myHead..myTail chain exactly once (myTail is the chain's
\* last node after each refresh).
C39_AsClaimed ==
    (last.op = "onRefresh" /\ ~last.paused /\ last.taken # <<>>) =>
        /\ [k \in 1..Len(last.rows) |-> last.rows[k].msg] = last.taken
        /\ RowsOnTop
        /\ Increasing(last.rows)
        /\ ChainedOnce

\* what holds instead: every message taken but the last one of the queue is
\* inserted, in queue order with increasing sequence numbers; all of them are
\* chained once; and the last message of a queue is in no row of the store,
\* then or later
C39_AllButLast ==
    /\ (last.op = "onRefresh" /\ ~last.paused /\ last.taken # <<>>) =>
          /\ [k \in 1..Len(last.rows) |-> last.rows[k].msg]
                 = SubSeq(last.taken, 1, Len(last.taken) - 1)
          /\ RowsOnTop
          /\ Increasing(last.rows)
          /\ ChainedOnce
    /\ \A k \in 1..Len(disk) : disk[k].msg \notin hist
    /\ \A j, k \in 1..Len(disk) : j < k => disk[j].sequence > disk[k].sequence
    /\ (last.op = "onRefresh" /\ last.paused) => last.taken = <<>>

\* a refresh took one message: it is chained and no row was inserted
C39_Witness ==
    /\ last.op = "onRefresh"
    /\ ~last.paused
    /\ last.taken = <<1>>
    /\ last.rows = <<>>
    /\ disk = <<>>
    /\ tor.myHead = 1
    /\ tor.myTail = 1

\* a second refresh took three messages after the first took one: two rows,
\* and a chain of four
C39_Second ==
    /\ last.op = "onRefresh"
    /\ last.taken = <<2, 3, 4>>
    /\ disk = <<[msg |-> 3, sequence |-> 2], [msg |-> 2, sequence |-> 1]>>
    /\ ChainFrom(tor.next, tor.myHead) = <<1, 2, 3, 4>>
    /\ tor.myTail = 4

\* a refresh while paused leaves the queue as it is
C39_Paused ==
    /\ last.op = "onRefresh"
    /\ last.paused
    /\ Len(infoDict) = 2

====
